---- MODULE Spec2Model ----
(***************************************************************************)
(* A model of mysql-health-check: the run of main(), the metric snapshot   *)
(* loaded from the server, the twenty checks, and the aggregation of their *)
(* levels into the process exit code.                                      *)
(*                                                                         *)
(* Strings are sequences of one-character strings, so that parsing and     *)
(* formatting are computed and not assumed.  float64 values are exact      *)
(* rationals <<n, d>> in lowest terms with d >= 0; d = 0 encodes the       *)
(* non-finite values: <<1,0>> is +Inf, <<-1,0>> is -Inf, <<0,0>> is NaN.   *)
(***************************************************************************)
EXTENDS Integers, Sequences, FiniteSets, TLC

VARIABLES
    pc,          \* position of main(), or the name of a harness
    flags,       \* the parsed command line: showVersion, sampleSeconds
    defers,      \* deferred calls registered by main and not yet run
    exitCode,    \* argument of os.Exit, -1 while the process runs
    failed,      \* which fatal step failed: "none", "cnf", "connect", "load"
    tookDefault, \* the default branch of the exit switch was taken
    session,     \* the sql.DB handle: "none", "open", "closed"
    queries,     \* statements sent over the session so far
    m,           \* the *db.MySQL value: Status, Vars, Version
    loaded,      \* the snapshot as it was when LoadAll returned
    categories,  \* []checks.Category built by main
    rendered,    \* Renderer.Render has run
    slept,       \* number of time.Sleep calls made by checkCPU
    result,      \* what Render printed as its summary; in a harness, the result
                 \* of the operation it applied
    shellOverall, \* shell variant: the counter overall (0 OK, 1 WARN, 2 CRIT)
    passed       \* shell variant: the levels given to bump_overall so far

vars == <<pc, flags, defers, exitCode, failed, tookDefault, session, queries, m, loaded,
          categories, rendered, slept, result, shellOverall, passed>>

-----------------------------------------------------------------------------
(* Evaluation order.  A Go local variable is computed once, when it is     *)
(* assigned.  With(e, Body) binds the value of e in Body in the same way:  *)
(* With(e, LAMBDA x : B) is the value of B with x the value of e.          *)

With(e, Body(_)) == CHOOSE r \in {Body(x) : x \in {e}} : TRUE

-----------------------------------------------------------------------------
(* Characters and strings                                                  *)

Digits == <<"0", "1", "2", "3", "4", "5", "6", "7", "8", "9">>

IsDigit(c) == \E i \in 1..10 : Digits[i] = c

DigitVal(c) == (CHOOSE i \in 1..10 : Digits[i] = c) - 1

Lower(c) ==
    CASE c = "I" -> "i" [] c = "N" -> "n" [] c = "F" -> "f" [] c = "A" -> "a"
      [] c = "T" -> "t" [] c = "Y" -> "y" [] c = "E" -> "e" [] OTHER -> c

LowerStr(s) == [i \in 1..Len(s) |-> Lower(s[i])]

Min(S) == CHOOSE x \in S : \A y \in S : x <= y

Pow10F[e \in Nat] == IF e = 0 THEN 1 ELSE 10 * Pow10F[e - 1]

Pow10(e) == Pow10F[e]

NatToStrF[n \in Nat] ==
    IF n < 10 THEN <<Digits[n + 1]>>
    ELSE NatToStrF[n \div 10] \o <<Digits[(n % 10) + 1]>>

\* The decimal digits of a natural number.
NatToStr(n) == NatToStrF[n]

IntToStr(n) == IF n < 0 THEN <<"-">> \o NatToStr(-n) ELSE NatToStr(n)

Drop(s, k) == SubSeq(s, k + 1, Len(s))

-----------------------------------------------------------------------------
(* float64 arithmetic on exact rationals                                   *)

Abs(x) == IF x < 0 THEN -x ELSE x

Sign(x) == IF x < 0 THEN -1 ELSE IF x > 0 THEN 1 ELSE 0

GCDF[a \in Nat, b \in Nat] == IF b = 0 THEN a ELSE GCDF[b, a % b]

GCD(a, b) == GCDF[a, b]

Float == Int \X Nat

NormF[n \in Int, d \in Int] ==
    IF d = 0 THEN <<Sign(n), 0>>
    ELSE With(GCD(Abs(n), Abs(d)), LAMBDA g :
             IF d < 0 THEN <<(-n) \div g, (-d) \div g>> ELSE <<n \div g, d \div g>>)

\* The rational n/d in lowest terms.
Norm(n, d) == NormF[n, d]

F(n) == <<n, 1>>

NaN == <<0, 0>>

PosInf == <<1, 0>>

NegInf == <<-1, 0>>

IsNaN(a) == a = NaN

IsFinite(a) == a[2] # 0

FNeg(a) == <<-a[1], a[2]>>

FAbs(a) == <<Abs(a[1]), a[2]>>

FAddF[a \in Float, b \in Float] ==
    IF IsNaN(a) \/ IsNaN(b) THEN NaN
    ELSE IF ~IsFinite(a) /\ ~IsFinite(b) THEN (IF a = b THEN a ELSE NaN)
    ELSE IF ~IsFinite(a) THEN a
    ELSE IF ~IsFinite(b) THEN b
    ELSE Norm(a[1] * b[2] + b[1] * a[2], a[2] * b[2])

FAdd(a, b) == FAddF[a, b]

FSub(a, b) == FAdd(a, FNeg(b))

FMulF[a \in Float, b \in Float] ==
    IF IsNaN(a) \/ IsNaN(b) THEN NaN ELSE Norm(a[1] * b[1], a[2] * b[2])

FMul(a, b) == FMulF[a, b]

FRecip(a) ==
    IF a[1] > 0 THEN <<a[2], a[1]>>
    ELSE IF a[1] < 0 THEN <<-a[2], -a[1]>>
    ELSE IF a[2] = 0 THEN NaN ELSE PosInf

FDivF[a \in Float, b \in Float] ==
    IF IsNaN(a) \/ IsNaN(b) THEN NaN
    ELSE IF ~IsFinite(a) /\ ~IsFinite(b) THEN NaN
    ELSE IF ~IsFinite(b) THEN F(0)
    ELSE IF a[1] = 0 /\ b[1] = 0 THEN NaN
    ELSE With(FRecip(b), LAMBDA r : Norm(a[1] * r[1], a[2] * r[2]))

FDiv(a, b) == FDivF[a, b]

\* The comparisons of Go: every comparison with NaN is false.
FLtF[a \in Float, b \in Float] ==
    /\ ~IsNaN(a)
    /\ ~IsNaN(b)
    /\ IF ~IsFinite(a) /\ ~IsFinite(b) THEN a[1] < b[1]
       ELSE a[1] * b[2] < b[1] * a[2]

FLt(a, b) == FLtF[a, b]

FEqF[a \in Float, b \in Float] == ~IsNaN(a) /\ ~IsNaN(b) /\ a = b

FEq(a, b) == FEqF[a, b]

FLe(a, b) == FLt(a, b) \/ FEq(a, b)

FGt(a, b) == FLt(b, a)

FGe(a, b) == FLe(b, a)

RoundF[a \in Float] ==
    With(a[1] \div a[2], LAMBDA q :
    With(a[1] % a[2], LAMBDA r :
        IF 2 * r < a[2] THEN q
        ELSE IF 2 * r > a[2] THEN q + 1
        ELSE IF q % 2 = 0 THEN q ELSE q + 1))

\* Nearest integer to a finite non-negative rational, ties to even.
RoundHalfEven(a) == RoundF[a]

-----------------------------------------------------------------------------
(* strconv.ParseFloat(s, 64) with its error dropped, as every caller does  *)
(* (f, _ := strconv.ParseFloat(v, 64)): a syntax error yields 0.  The      *)
(* special values and the decimal grammar are parsed as strconv's special  *)
(* and readFloat do, one character at a time; the input alphabet of the    *)
(* model holds no base prefix and no underscore.                           *)

Str(n) == NatToStr(n)

ScanStart ==
    [phase |-> "sign", neg |-> FALSE, mant |-> 0, nd |-> 0, frac |-> 0,
     eneg |-> FALSE, ex |-> 0, ed |-> 0]

\* One character c read in scanner state p.
ScanStep(p, c) ==
    CASE p.phase = "sign" /\ c \in {"+", "-"} ->
             [p EXCEPT !.phase = "mant", !.neg = (c = "-")]
      [] p.phase \in {"sign", "mant"} /\ IsDigit(c) ->
             [p EXCEPT !.phase = "mant", !.mant = p.mant * 10 + DigitVal(c),
                       !.nd = p.nd + 1]
      [] p.phase \in {"sign", "mant"} /\ c = "." ->
             [p EXCEPT !.phase = "frac"]
      [] p.phase = "frac" /\ IsDigit(c) ->
             [p EXCEPT !.mant = p.mant * 10 + DigitVal(c), !.nd = p.nd + 1,
                       !.frac = p.frac + 1]
      [] p.phase \in {"mant", "frac"} /\ p.nd > 0 /\ c \in {"e", "E"} ->
             [p EXCEPT !.phase = "e"]
      [] p.phase = "e" /\ c \in {"+", "-"} ->
             [p EXCEPT !.phase = "exp", !.eneg = (c = "-")]
      [] p.phase \in {"e", "exp"} /\ IsDigit(c) ->
             [p EXCEPT !.phase = "exp", !.ex = p.ex * 10 + DigitVal(c),
                       !.ed = p.ed + 1]
      [] OTHER -> [p EXCEPT !.phase = "bad"]

\* The scanner state after the whole of s.
ScanAll(s) ==
    LET st[i \in 0..Len(s)] ==
            IF i = 0 THEN ScanStart
            ELSE With(st[i - 1], LAMBDA p : ScanStep(p, s[i]))
    IN  st[Len(s)]

ScanValue(p) ==
    IF ~(\/ p.phase \in {"mant", "frac"} /\ p.nd > 0
         \/ p.phase = "exp" /\ p.ed > 0)
    THEN F(0)
    ELSE With(IF p.eneg THEN Norm(p.mant, Pow10(p.frac) * Pow10(p.ex))
              ELSE Norm(p.mant * Pow10(p.ex), Pow10(p.frac)),
              LAMBDA mag : IF p.neg THEN FNeg(mag) ELSE mag)

ParseFloatOf(s) ==
    With(LowerStr(s), LAMBDA low :
        IF low \in {<<"i", "n", "f">>, <<"+", "i", "n", "f">>,
                    <<"i", "n", "f", "i", "n", "i", "t", "y">>,
                    <<"+", "i", "n", "f", "i", "n", "i", "t", "y">>}
        THEN PosInf
        ELSE IF low \in {<<"-", "i", "n", "f">>,
                         <<"-", "i", "n", "f", "i", "n", "i", "t", "y">>}
        THEN NegInf
        ELSE IF low = <<"n", "a", "n">> THEN NaN
        ELSE With(ScanAll(s), LAMBDA p : ScanValue(p)))

ParseFloat(str) == With(str, LAMBDA s : ParseFloatOf(s))

\* strconv.Atoi with its error dropped: 0 unless s is an optionally signed,
\* non-empty run of decimal digits.
Atoi(str) ==
    With(str, LAMBDA s :
    With(ScanAll(s), LAMBDA p :
        IF p.phase = "mant" /\ p.nd > 0
        THEN (IF p.neg THEN -p.mant ELSE p.mant)
        ELSE 0))

-----------------------------------------------------------------------------
(* fmt.Sscanf(v, "%d.%d.%d", &ma, &mi, &pa): each %d reads an optional     *)
(* sign and decimal digits; scanning stops at the first item that fails    *)
(* and leaves the remaining targets at zero.                               *)

\* Length of the longest prefix of s made of decimal digits.
DigitRun(s) ==
    With({i \in 1..Len(s) : ~IsDigit(s[i])}, LAMBDA stops :
        IF stops = {} THEN Len(s) ELSE Min(stops) - 1)

\* Value of a sequence of decimal digits.
DigitsVal(s) ==
    LET V[i \in 0..Len(s)] == IF i = 0 THEN 0 ELSE V[i - 1] * 10 + DigitVal(s[i])
    IN  V[Len(s)]

\* One %d at the head of str.
ScanInt(str) ==
    With(str, LAMBDA s :
    With(s # <<>> /\ s[1] \in {"+", "-"}, LAMBDA signed :
    With(IF signed THEN Tail(s) ELSE s, LAMBDA u :
    With(DigitRun(u), LAMBDA k :
    With(DigitsVal(SubSeq(u, 1, k)), LAMBDA v :
        [ok |-> k > 0,
         val |-> IF signed /\ s[1] = "-" THEN -v ELSE v,
         rest |-> Drop(u, k)])))))

\* The literal "." of the format at the head of str.
ScanDot(str) ==
    With(str, LAMBDA s :
        [ok |-> s # <<>> /\ s[1] = ".", rest |-> IF s = <<>> THEN s ELSE Tail(s)])

SscanfVersion(v) ==
    With(ScanInt(v), LAMBDA a :
    With(ScanDot(a.rest), LAMBDA d1 :
    With(ScanInt(d1.rest), LAMBDA b :
    With(ScanDot(b.rest), LAMBDA d2 :
    With(ScanInt(d2.rest), LAMBDA c :
    With(a.ok, LAMBDA okA :
    With(okA /\ d1.ok /\ b.ok, LAMBDA okB :
    With(okB /\ d2.ok /\ c.ok, LAMBDA okC :
        <<IF okA THEN a.val ELSE 0,
          IF okB THEN b.val ELSE 0,
          IF okC THEN c.val ELSE 0>>))))))))

\* strings.Index(v, "-"): 0 when "-" does not occur (Go returns -1).
IndexDash(v) ==
    With({i \in 1..Len(v) : v[i] = "-"}, LAMBDA at :
        IF at = {} THEN 0 ELSE Min(at))

\* A variant of VersionAtLeast that compares each component on its own.
VersionAtLeastEachComponent(mm, major, minor, patch) ==
    With(mm.Version, LAMBDA full :
    With(IndexDash(full), LAMBDA idx :
    With(IF idx > 0 THEN SubSeq(full, 1, idx - 1) ELSE full, LAMBDA v :
    With(SscanfVersion(v), LAMBDA t :
        t[1] >= major /\ t[2] >= minor /\ t[3] >= patch))))

VersionAtLeast(mm, major, minor, patch) ==
    With(mm.Version, LAMBDA full :
    With(IndexDash(full), LAMBDA idx :
    With(IF idx > 0 THEN SubSeq(full, 1, idx - 1) ELSE full, LAMBDA v :
    With(SscanfVersion(v), LAMBDA t :
        IF t[1] # major THEN t[1] > major
        ELSE IF t[2] # minor THEN t[2] > minor
        ELSE t[3] >= patch))))

-----------------------------------------------------------------------------
(* Levels, check results and their aggregation                             *)

LevelOK == 0

LevelWarn == 1

LevelCrit == 2

LevelSkip == 3

Levels == {LevelOK, LevelWarn, LevelCrit, LevelSkip}

NA == <<"N", "/", "A">>

\* A variant of WorstLevel without the "if ch.Level == LevelSkip { continue }":
\* LevelSkip is the largest Level, so it would win every comparison.
WorstLevelCountingSkip(c) ==
    With(c.Checks, LAMBDA chks :
        LET worst[i \in 0..Len(chks)] ==
                IF i = 0 THEN LevelOK
                ELSE With(worst[i - 1], LAMBDA w :
                         IF chks[i].Level > w THEN chks[i].Level ELSE w)
        IN  worst[Len(chks)])

\* Category.WorstLevel: worst[i] is the variable worst after the loop has
\* visited c.Checks[1..i].
WorstLevel(c) ==
    With(c.Checks, LAMBDA chks :
        LET worst[i \in 0..Len(chks)] ==
                IF i = 0 THEN LevelOK
                ELSE With(worst[i - 1], LAMBDA w :
                         IF chks[i].Level = LevelSkip THEN w
                         ELSE IF chks[i].Level > w THEN chks[i].Level
                         ELSE w)
        IN  worst[Len(chks)])

\* A variant of OverallLevel that assigns worst = l without comparing.
OverallLevelNoCompare(cats) ==
    IF Len(cats) = 0 THEN LevelOK ELSE WorstLevel(cats[Len(cats)])

\* OverallLevel: worst[i] is the variable worst after the loop has visited
\* cats[1..i].
OverallLevel(cats) ==
    LET worst[i \in 0..Len(cats)] ==
            IF i = 0 THEN LevelOK
            ELSE With(worst[i - 1], LAMBDA w :
                 With(WorstLevel(cats[i]), LAMBDA l :
                     IF l > w THEN l ELSE w))
    IN  worst[Len(cats)]

\* A variant of pct that reports 0 as a defined value when the denominator is 0.
pctZeroOnUndefined(numerator, denominator) ==
    IF FEq(denominator, F(0)) THEN [v |-> F(0), ok |-> TRUE]
    ELSE [v |-> FDiv(FMul(numerator, F(100)), denominator), ok |-> TRUE]

\* pct returns (value, ok); the value is 0 when ok is false.
pct(numerator, denominator) ==
    IF FEq(denominator, F(0)) THEN [v |-> F(0), ok |-> FALSE]
    ELSE [v |-> FDiv(FMul(numerator, F(100)), denominator), ok |-> TRUE]

FmtSpecial(v) ==
    IF IsNaN(v) THEN <<"N", "a", "N">>
    ELSE IF v = PosInf THEN <<"+", "I", "n", "f">>
    ELSE <<"-", "I", "n", "f">>

\* fmt.Sprintf("%.2f", v): two decimals, nearest, ties to even.
Fmt2(val) ==
    With(val, LAMBDA v :
        IF ~IsFinite(v) THEN FmtSpecial(v)
        ELSE With(RoundHalfEven(FMul(FAbs(v), F(100))), LAMBDA h :
                 (IF v[1] < 0 THEN <<"-">> ELSE <<>>)
                     \o NatToStr(h \div 100) \o <<".">>
                     \o <<Digits[((h % 100) \div 10) + 1], Digits[(h % 10) + 1]>>))

\* fmt.Sprintf("%.0f", v)
Fmt0(val) ==
    With(val, LAMBDA v :
        IF ~IsFinite(v) THEN FmtSpecial(v)
        ELSE (IF v[1] < 0 THEN <<"-">> ELSE <<>>) \o NatToStr(RoundHalfEven(FAbs(v))))

fmtPct(v) == Fmt2(v) \o <<"%">>

fmtMin(v) == Fmt0(v) \o <<"m", "i", "n">>

\* statusFloat / varFloat: 0 for an absent key, else the parsed value.
statusFloat(mm, key) ==
    IF key \notin DOMAIN mm.Status THEN F(0) ELSE ParseFloat(mm.Status[key])

varFloat(mm, key) ==
    IF key \notin DOMAIN mm.Vars THEN F(0) ELSE ParseFloat(mm.Vars[key])

-----------------------------------------------------------------------------
(* The static part of every check: the Check literal each check function   *)
(* starts from (Value and Level still at their zero values).               *)

checkCPU_c ==
    [Name |-> "CPU Utilization",
     Value |-> <<>>,
     Level |-> LevelOK,
     Threshold |-> "<= 80% OK, 80-100% WARN, > 100% CRIT",
     Description |-> "Average CPU usage by the mysqld process.",
     Detail |-> "CPU utilization measures how much processing power mysqld is consuming relative to the available cores. High sustained CPU usage (above 80%) may indicate poorly optimized queries, missing indexes, or that the server needs more processing capacity. Values above 100% indicate contention across cores."]

checkDiskSpace_c ==
    [Name |-> "Disk Space Usage",
     Value |-> <<>>,
     Level |-> LevelOK,
     Threshold |-> "< 80% OK, >= 80% WARN",
     Description |-> "Percentage of used disk space on the MySQL data directory filesystem.",
     Detail |-> "Monitors the filesystem where MySQL stores its data files. Running out of disk space can cause MySQL to crash, corrupt data, or refuse writes entirely. Proactive monitoring prevents catastrophic failures. Keep at least 20% free for operations like ALTER TABLE, binary logs, and temporary files."]

checkMemory_c ==
    [Name |-> "Memory Utilization",
     Value |-> <<>>,
     Level |-> LevelOK,
     Threshold |-> "< 80% OK, >= 80% WARN",
     Description |-> "Current memory usage of the server.",
     Detail |-> "Measures how much of the server's physical RAM is in use. MySQL relies heavily on memory for the InnoDB buffer pool, thread stacks, sort buffers, and caches. If memory utilization consistently exceeds 80%, the server may start swapping to disk, which drastically reduces database performance."]

checkConnectionUtilization_c ==
    [Name |-> "Connection Utilization",
     Value |-> <<>>,
     Level |-> LevelOK,
     Threshold |-> "< 70% OK, 70-85% WARN, >= 85% CRIT",
     Description |-> "Utilization of available database connections.",
     Detail |-> "Shows the peak percentage of max_connections that has been used since the server started. If this approaches 85-100%, new connections may be refused, causing application errors. If consistently high, consider increasing max_connections or investigating connection pooling."]

checkOpenFiles_c ==
    [Name |-> "Open Files Utilization",
     Value |-> <<>>,
     Level |-> LevelOK,
     Threshold |-> "< 85% OK, >= 85% WARN",
     Description |-> "Usage of file descriptors by MySQL.",
     Detail |-> "MySQL opens file descriptors for table data files, log files, and connections. If the open files count approaches the OS limit, MySQL cannot open new tables or accept new connections, leading to errors. Ensure the open_files_limit is high enough for your workload."]

checkMyISAMCacheHitRate_c ==
    [Name |-> "MyISAM Cache Hit Rate",
     Value |-> <<>>,
     Level |-> LevelOK,
     Threshold |-> "> 95% OK, <= 95% WARN",
     Description |-> "Effectiveness of the MyISAM key cache (index access).",
     Detail |-> "Measures what percentage of MyISAM index read requests are served from the key buffer cache rather than from disk. A rate below 95% means MySQL frequently reads index blocks from disk, which is significantly slower. Increase key_buffer_size if this is low and you use MyISAM tables."]

checkMyISAMKeyWriteRatio_c ==
    [Name |-> "MyISAM Key Write Ratio",
     Value |-> <<>>,
     Level |-> LevelOK,
     Threshold |-> "efficiency >= 90% OK, < 90% WARN",
     Description |-> "The proportion of physical writes of a key block to the cache.",
     Detail |-> "Shows what fraction of MyISAM key write requests result in actual physical disk writes. A low ratio means most writes are absorbed by the cache before being flushed to disk, which is ideal. High physical write ratios indicate the key buffer is too small to effectively batch writes."]

checkInnoDBCacheHitRate_c ==
    [Name |-> "InnoDB Cache Hit Rate",
     Value |-> <<>>,
     Level |-> LevelOK,
     Threshold |-> "> 90% OK, <= 90% WARN",
     Description |-> "How often data is retrieved from the buffer pool instead of disk.",
     Detail |-> "The InnoDB buffer pool is the most critical memory structure in MySQL. This metric shows the percentage of data page reads served from RAM. A hit rate below 90% means MySQL is doing excessive disk I/O, which is orders of magnitude slower. The primary fix is increasing innodb_buffer_pool_size."]

checkRedoLogCoverage_c ==
    [Name |-> "InnoDB Log File Size",
     Value |-> <<>>,
     Level |-> LevelOK,
     Threshold |-> ">= 45min OK, < 45min WARN (ideal 45-75min)",
     Description |-> "Minutes of redo log capacity before a flush is required.",
     Detail |-> "The InnoDB redo log records all changes to data. This check calculates how many minutes of write activity the redo log can hold before it must be flushed. Ideally this should be around 60 minutes (45-75 range). Too small means frequent checkpoint flushes causing I/O spikes; too large means longer crash recovery times."]

checkInnoDBDirtyPages_c ==
    [Name |-> "InnoDB Dirty Pages Ratio",
     Value |-> <<>>,
     Level |-> LevelOK,
     Threshold |-> "< 75% OK, >= 75% WARN",
     Description |-> "Percentage of modified pages in memory not yet written back to disk.",
     Detail |-> "Dirty pages are data pages modified in the buffer pool but not yet flushed to disk. A high ratio (>= 75%) during normal operations suggests the flushing mechanism cannot keep up with writes, potentially leading to stalls when the buffer pool runs out of clean pages. Tune innodb_io_capacity and innodb_max_dirty_pages_pct."]

checkThreadCacheHitRate_c ==
    [Name |-> "Thread Cache Hit Rate",
     Value |-> <<>>,
     Level |-> LevelOK,
     Threshold |-> "> 50% OK, <= 50% WARN",
     Description |-> "The percentage of times a requested thread is found in the cache.",
     Detail |-> "When a client connects, MySQL can reuse a cached thread instead of creating a new one. Thread creation is expensive (involves memory allocation and OS thread setup). A hit rate below 50% means more than half of connections require new thread creation. Increase thread_cache_size to improve this."]

checkThreadCacheRatio_c ==
    [Name |-> "Thread Cache Ratio",
     Value |-> <<>>,
     Level |-> LevelOK,
     Threshold |-> "> 10% OK, <= 10% WARN",
     Description |-> "The efficiency of the thread cache for reusing threads.",
     Detail |-> "Shows what proportion of all threads ever created are currently sitting in the cache ready for reuse. A ratio below 10% suggests the thread cache is undersized relative to the connection pattern. Increasing thread_cache_size allows MySQL to keep more idle threads ready, reducing connection latency."]

checkTableCacheHitRate_c ==
    [Name |-> "Table Cache Hit Rate",
     Value |-> <<>>,
     Level |-> LevelOK,
     Threshold |-> ">= 90% OK, < 90% WARN",
     Description |-> "Efficiency of the table open cache.",
     Detail |-> "Each time MySQL accesses a table, it needs an open file handle. The table cache stores these handles to avoid repeatedly opening and closing files. A hit rate below 90% means MySQL frequently re-opens tables from disk, adding latency. Increase table_open_cache if this is consistently low."]

checkTableDefCacheHitRate_c ==
    [Name |-> "Table Def Cache Hit Rate",
     Value |-> <<>>,
     Level |-> LevelOK,
     Threshold |-> "> 75% OK, <= 75% WARN",
     Description |-> "The efficiency of the table definition cache.",
     Detail |-> "Table definitions (schema metadata like column types, indexes) are cached to avoid re-parsing .frm files or data dictionary entries. A hit rate below 75% means MySQL frequently reloads table metadata, adding overhead to every query. Increase table_definition_cache for databases with many tables."]

checkTableLockingEfficiency_c ==
    [Name |-> "Table Locking Efficiency",
     Value |-> <<>>,
     Level |-> LevelOK,
     Threshold |-> "> 95% OK, <= 95% WARN",
     Description |-> "Percentage of table locks acquired without waiting.",
     Detail |-> "Measures how often table lock requests are granted immediately versus having to wait. Low efficiency (< 95%) indicates lock contention, which causes queries to queue and increases response times. If using MyISAM tables, consider migrating to InnoDB which uses row-level locking instead of table-level locking."]

checkSortMergePassRatio_c ==
    [Name |-> "Sort Merge Passes Ratio",
     Value |-> <<>>,
     Level |-> LevelOK,
     Threshold |-> "< 10% OK, >= 10% WARN",
     Description |-> "The effectiveness of sorting operations.",
     Detail |-> "When MySQL cannot complete a sort in memory, it writes temporary data to disk and performs merge passes. A high ratio means many sorts spill to disk, significantly slowing query execution. Increase sort_buffer_size to allow more sorts to complete in memory, and optimize queries to reduce the amount of data sorted."]

checkTempDiskData_c ==
    [Name |-> "Temporary Disk Data",
     Value |-> <<>>,
     Level |-> LevelOK,
     Threshold |-> "<= 25% OK, > 25% WARN",
     Description |-> "The percentage of temporary tables created on disk instead of in memory.",
     Detail |-> "MySQL creates temporary tables for complex queries (GROUP BY, DISTINCT, UNION). When these exceed tmp_table_size or max_heap_table_size, they spill to disk. A ratio above 25% indicates significant disk-based temp table usage. Increase tmp_table_size and max_heap_table_size, and optimize queries to reduce temporary table sizes."]

checkFlushingLogs_c ==
    [Name |-> "Flushing Logs",
     Value |-> <<>>,
     Level |-> LevelOK,
     Threshold |-> "< 5% OK, 5-20% WARN, > 20% CRIT",
     Description |-> "The percentage of log writes that had to wait for the log buffer to be flushed.",
     Detail |-> "When InnoDB needs to write to the redo log but the log buffer is full, it must wait for the buffer to be flushed to disk. A high wait percentage means the innodb_log_buffer_size is too small for the write workload, causing write stalls. Values above 20% require immediate attention to prevent performance degradation."]

checkQCacheFragmentation_c ==
    [Name |-> "QCache Fragmentation",
     Value |-> <<>>,
     Level |-> LevelOK,
     Threshold |-> "frag < 10% AND del < 20% OK, else WARN",
     Description |-> "Query cache fragmentation and eviction rate.",
     Detail |-> "The query cache stores SELECT results for reuse. Fragmentation means free memory is scattered in small blocks, reducing cache efficiency. A high delete rate means queries are being evicted due to low memory before they can be reused. Note: Query Cache is removed in MySQL 8.0+, so this check only applies to older versions."]

checkQueryTruncation_c ==
    [Name |-> "Query Truncation Status",
     Value |-> <<>>,
     Level |-> LevelOK,
     Threshold |-> "FALSE = OK, TRUE = WARN",
     Description |-> "The presence of truncated SQL query statements.",
     Detail |-> "When SQL query text exceeds the performance_schema max length, it gets truncated with '...'. This prevents full analysis of slow or problematic queries. If truncation is detected, incrementally increase max_digest_length, performance_schema_max_sql_text_length, and performance_schema_max_digest_length to capture complete query text."]

-----------------------------------------------------------------------------
(* The checks                                                              *)

\* A variant of Skip that reports a zero percentage in place of the marker.
SkipAsZero(c) == [c EXCEPT !.Value = fmtPct(F(0)), !.Level = LevelSkip]

\* c.Value = "N/A"; c.Level = LevelSkip; return c
Skip(c) == [c EXCEPT !.Value = NA, !.Level = LevelSkip]

\* c.Value = value; c.Level = level; return c
Rated(c, value, level) == [c EXCEPT !.Value = value, !.Level = level]

sysconfCLKTCK == 100

\* h: what the host answers to checkCPU: whether findMysqldPid finds the
\* process, the two readings of /proc/<pid>/stat and numCPU().
\* A zero tick delta divided by a negative duration is the float64 -0, which
\* %.2f prints with its sign.
checkCPU(sampleSeconds, h) ==
    LET c == checkCPU_c
    IN  IF ~h.pidFound THEN Skip(c)
        ELSE IF ~h.t1ok THEN Skip(c)
        ELSE IF ~h.t2ok THEN Skip(c)
        ELSE With(sysconfCLKTCK, LAMBDA hz :
             With(FDiv(F(h.t2 - h.t1), F(hz)), LAMBDA delta :
             With(h.cpus, LAMBDA cpuCount :
             With(FDiv(FMul(FDiv(delta, F(sampleSeconds)), F(100)), F(cpuCount)),
                  LAMBDA usage :
                 Rated(c, (IF usage = F(0) /\ sampleSeconds < 0 THEN <<"-">> ELSE <<>>)
                              \o fmtPct(usage),
                       IF FLe(usage, F(80)) THEN LevelOK
                       ELSE IF FLe(usage, F(100)) THEN LevelWarn
                       ELSE LevelCrit)))))

\* A variant of checkCPUEvents that sleeps before it looks for the process.
checkCPUEventsSleepFirst(h) ==
    <<"time.Sleep", "findMysqldPid">>
        \o (IF ~h.pidFound THEN <<>>
            ELSE IF ~h.t1ok THEN <<"readProcCPUTicks">>
            ELSE IF ~h.t2ok THEN <<"readProcCPUTicks", "readProcCPUTicks">>
            ELSE <<"readProcCPUTicks", "readProcCPUTicks", "sysconfCLKTCK", "numCPU">>)

\* The calls checkCPU makes to the host, in the order it makes them.
checkCPUEvents(h) ==
    <<"findMysqldPid">>
        \o (IF ~h.pidFound THEN <<>>
            ELSE IF ~h.t1ok THEN <<"readProcCPUTicks">>
            ELSE IF ~h.t2ok THEN <<"readProcCPUTicks", "time.Sleep", "readProcCPUTicks">>
            ELSE <<"readProcCPUTicks", "time.Sleep", "readProcCPUTicks",
                   "sysconfCLKTCK", "numCPU">>)

\* Number of time.Sleep calls checkCPU makes for the host answers h.
checkCPUSleeps(h) == IF h.pidFound /\ h.t1ok THEN 1 ELSE 0

\* fs: what syscall.Statfs(datadir) answers.
checkDiskSpace(mm, fs) ==
    LET c == checkDiskSpace_c
    IN  IF "datadir" \notin DOMAIN mm.Vars \/ mm.Vars["datadir"] = <<>> THEN Skip(c)
        ELSE IF ~fs.ok THEN Skip(c)
        ELSE With(fs.Blocks * fs.Bsize, LAMBDA total :
             With(fs.Bfree * fs.Bsize, LAMBDA free :
                 IF total = 0 THEN Skip(c)
                 ELSE With(total - free, LAMBDA used :
                      With(FDiv(FMul(F(used), F(100)), F(total)), LAMBDA usage :
                          Rated(c, fmtPct(usage),
                                IF FLt(usage, F(80)) THEN LevelOK ELSE LevelWarn)))))

\* parseKB applied to a line of /proc/meminfo whose second field holds kb.
parseKB(kb) == kb * 1024

\* mi: /proc/meminfo: whether it can be read, and the kB figures of its
\* MemTotal and MemAvailable lines (has* FALSE when the line is missing).
readMeminfo(mi) ==
    [err |-> ~mi.ok,
     total |-> IF mi.ok /\ mi.hasTotal THEN parseKB(mi.totalKB) ELSE 0,
     available |-> IF mi.ok /\ mi.hasAvail THEN parseKB(mi.availKB) ELSE 0]

checkMemory(mi) ==
    LET c == checkMemory_c
    IN  With(readMeminfo(mi), LAMBDA r :
            IF r.err THEN Skip(c)
            ELSE IF r.total = 0 THEN Skip(c)
            ELSE With(r.total - r.available, LAMBDA used :
                 With(FDiv(FMul(F(used), F(100)), F(r.total)), LAMBDA usage :
                     Rated(c, fmtPct(usage),
                           IF FLt(usage, F(80)) THEN LevelOK ELSE LevelWarn))))

\* A variant of checkConnectionUtilization whose thresholds are inclusive
\* (v <= 70, v <= 85).
checkConnectionUtilizationInclusive(mm) ==
    LET c == checkConnectionUtilization_c
    IN  With(statusFloat(mm, "Max_used_connections"), LAMBDA maxUsed :
        With(varFloat(mm, "max_connections"), LAMBDA maxConn :
        With(pct(maxUsed, maxConn), LAMBDA p :
            IF ~p.ok THEN Skip(c)
            ELSE Rated(c, fmtPct(p.v),
                       IF FLe(p.v, F(70)) THEN LevelOK
                       ELSE IF FLe(p.v, F(85)) THEN LevelWarn
                       ELSE LevelCrit))))

\* A variant of checkConnectionUtilization that compares the value as it is
\* displayed, rounded to two decimals.
checkConnectionUtilizationRounded(mm) ==
    LET c == checkConnectionUtilization_c
    IN  With(statusFloat(mm, "Max_used_connections"), LAMBDA maxUsed :
        With(varFloat(mm, "max_connections"), LAMBDA maxConn :
        With(pct(maxUsed, maxConn), LAMBDA p :
            IF ~p.ok THEN Skip(c)
            ELSE With(Norm(RoundHalfEven(FMul(p.v, F(100))), 100), LAMBDA shown :
                     Rated(c, fmtPct(p.v),
                           IF FLt(shown, F(70)) THEN LevelOK
                           ELSE IF FLt(shown, F(85)) THEN LevelWarn
                           ELSE LevelCrit)))))

checkConnectionUtilization(mm) ==
    LET c == checkConnectionUtilization_c
    IN  With(statusFloat(mm, "Max_used_connections"), LAMBDA maxUsed :
        With(varFloat(mm, "max_connections"), LAMBDA maxConn :
        With(pct(maxUsed, maxConn), LAMBDA p :
            IF ~p.ok THEN Skip(c)
            ELSE Rated(c, fmtPct(p.v),
                       IF FLt(p.v, F(70)) THEN LevelOK
                       ELSE IF FLt(p.v, F(85)) THEN LevelWarn
                       ELSE LevelCrit))))

checkOpenFiles(mm) ==
    LET c == checkOpenFiles_c
    IN  With(statusFloat(mm, "Open_files"), LAMBDA openFiles :
        With(varFloat(mm, "open_files_limit"), LAMBDA limit :
        With(pct(openFiles, limit), LAMBDA p :
            IF ~p.ok THEN Skip(c)
            ELSE Rated(c, fmtPct(p.v),
                       IF FLt(p.v, F(85)) THEN LevelOK ELSE LevelWarn))))

RunSystemChecks(mm, sampleSeconds, h, fs, mi) ==
    <<checkCPU(sampleSeconds, h), checkDiskSpace(mm, fs), checkMemory(mi),
      checkConnectionUtilization(mm), checkOpenFiles(mm)>>

\* 100.0 - (a * 100.0 / b)
Complement(a, b) == FSub(F(100), FDiv(FMul(a, F(100)), b))

checkMyISAMCacheHitRate(mm) ==
    LET c == checkMyISAMCacheHitRate_c
    IN  With(statusFloat(mm, "Key_reads"), LAMBDA reads :
        With(statusFloat(mm, "Key_read_requests"), LAMBDA requests :
            IF FEq(requests, F(0)) THEN Skip(c)
            ELSE With(Complement(reads, requests), LAMBDA v :
                     Rated(c, fmtPct(v),
                           IF FGt(v, F(95)) THEN LevelOK ELSE LevelWarn))))

checkMyISAMKeyWriteRatio(mm) ==
    LET c == checkMyISAMKeyWriteRatio_c
    IN  With(statusFloat(mm, "Key_writes"), LAMBDA writes :
        With(statusFloat(mm, "Key_write_requests"), LAMBDA requests :
            IF FEq(requests, F(0)) THEN Skip(c)
            ELSE With(FDiv(FMul(writes, F(100)), requests), LAMBDA ratio :
                 With(FSub(F(100), ratio), LAMBDA efficiency :
                     Rated(c,
                           Fmt2(ratio) \o <<"%", " ", "(", "e", "f", "f", ":", " ">>
                               \o Fmt2(efficiency) \o <<"%", ")">>,
                           IF FGe(efficiency, F(90)) THEN LevelOK ELSE LevelWarn)))))

checkInnoDBCacheHitRate(mm) ==
    LET c == checkInnoDBCacheHitRate_c
    IN  With(statusFloat(mm, "Innodb_buffer_pool_read_requests"), LAMBDA requests :
        With(statusFloat(mm, "Innodb_buffer_pool_reads"), LAMBDA reads :
            IF FEq(requests, F(0)) THEN Skip(c)
            ELSE With(FDiv(FMul(FSub(requests, reads), F(100)), requests), LAMBDA v :
                     Rated(c, fmtPct(v),
                           IF FGt(v, F(90)) THEN LevelOK ELSE LevelWarn))))

\* A variant of redoCap without the m.VersionAtLeast(8, 0, 30) test.
redoCapAnyVersion(mm) ==
    With(IF "innodb_redo_log_capacity" \in DOMAIN mm.Vars
         THEN ParseFloat(mm.Vars["innodb_redo_log_capacity"])
         ELSE F(0),
         LAMBDA explicit :
        IF FEq(explicit, F(0))
        THEN FMul(varFloat(mm, "innodb_log_files_in_group"),
                  varFloat(mm, "innodb_log_file_size"))
        ELSE explicit)

\* The redo capacity checkRedoLogCoverage resolves: var redoCap float64 and
\* the two if statements that assign it.
redoCap(mm) ==
    With(IF VersionAtLeast(mm, 8, 0, 30) /\ "innodb_redo_log_capacity" \in DOMAIN mm.Vars
         THEN ParseFloat(mm.Vars["innodb_redo_log_capacity"])
         ELSE F(0),
         LAMBDA explicit :
        IF FEq(explicit, F(0))
        THEN With(varFloat(mm, "innodb_log_files_in_group"), LAMBDA filesInGroup :
             With(varFloat(mm, "innodb_log_file_size"), LAMBDA fileSize :
                 FMul(filesInGroup, fileSize)))
        ELSE explicit)

\* A variant of checkRedoLogCoverage whose threshold is exclusive (minutes > 45).
checkRedoLogCoverageExclusive(mm) ==
    LET c == checkRedoLogCoverage_c
    IN  IF "Uptime" \notin DOMAIN mm.Status THEN Skip(c)
        ELSE With(ParseFloat(mm.Status["Uptime"]), LAMBDA uptime :
             With(statusFloat(mm, "Innodb_os_log_written"), LAMBDA osLogWritten :
                 IF FEq(osLogWritten, F(0)) THEN Skip(c)
                 ELSE With(redoCap(mm), LAMBDA capacity :
                     IF FEq(capacity, F(0)) THEN Skip(c)
                     ELSE With(FDiv(FMul(FDiv(uptime, F(60)), capacity), osLogWritten),
                               LAMBDA minutes :
                              Rated(c, fmtMin(minutes),
                                    IF FGt(minutes, F(45)) THEN LevelOK
                                    ELSE LevelWarn)))))

checkRedoLogCoverage(mm) ==
    LET c == checkRedoLogCoverage_c
    IN  IF "Uptime" \notin DOMAIN mm.Status THEN Skip(c)
        ELSE With(ParseFloat(mm.Status["Uptime"]), LAMBDA uptime :
             With(statusFloat(mm, "Innodb_os_log_written"), LAMBDA osLogWritten :
                 IF FEq(osLogWritten, F(0)) THEN Skip(c)
                 ELSE With(redoCap(mm), LAMBDA capacity :
                     IF FEq(capacity, F(0)) THEN Skip(c)
                     ELSE With(FDiv(FMul(FDiv(uptime, F(60)), capacity), osLogWritten),
                               LAMBDA minutes :
                              Rated(c, fmtMin(minutes),
                                    IF FGe(minutes, F(45)) THEN LevelOK
                                    ELSE LevelWarn)))))

checkInnoDBDirtyPages(mm) ==
    LET c == checkInnoDBDirtyPages_c
    IN  With(statusFloat(mm, "Innodb_buffer_pool_pages_dirty"), LAMBDA dirty :
        With(statusFloat(mm, "Innodb_buffer_pool_pages_total"), LAMBDA total :
        With(pct(dirty, total), LAMBDA p :
            IF ~p.ok THEN Skip(c)
            ELSE Rated(c, fmtPct(p.v),
                       IF FLt(p.v, F(75)) THEN LevelOK ELSE LevelWarn))))

RunEngineChecks(mm) ==
    <<checkMyISAMCacheHitRate(mm), checkMyISAMKeyWriteRatio(mm),
      checkInnoDBCacheHitRate(mm), checkRedoLogCoverage(mm),
      checkInnoDBDirtyPages(mm)>>

checkThreadCacheHitRate(mm) ==
    LET c == checkThreadCacheHitRate_c
    IN  With(statusFloat(mm, "Threads_created"), LAMBDA created :
        With(statusFloat(mm, "Connections"), LAMBDA connections :
            IF FEq(connections, F(0)) THEN Skip(c)
            ELSE With(Complement(created, connections), LAMBDA v :
                     Rated(c, fmtPct(v),
                           IF FGt(v, F(50)) THEN LevelOK ELSE LevelWarn))))

\* A variant of checkThreadCacheRatio that divides by Connections.
checkThreadCacheRatioPerConnection(mm) ==
    LET c == checkThreadCacheRatio_c
    IN  With(statusFloat(mm, "Threads_cached"), LAMBDA cached :
        With(statusFloat(mm, "Connections"), LAMBDA connections :
        With(pct(cached, connections), LAMBDA p :
            IF ~p.ok THEN Skip(c)
            ELSE Rated(c, fmtPct(p.v),
                       IF FGt(p.v, F(10)) THEN LevelOK ELSE LevelWarn))))

checkThreadCacheRatio(mm) ==
    LET c == checkThreadCacheRatio_c
    IN  With(statusFloat(mm, "Threads_cached"), LAMBDA cached :
        With(statusFloat(mm, "Threads_created"), LAMBDA created :
        With(pct(cached, created), LAMBDA p :
            IF ~p.ok THEN Skip(c)
            ELSE Rated(c, fmtPct(p.v),
                       IF FGt(p.v, F(10)) THEN LevelOK ELSE LevelWarn))))

\* The branch checkTableCacheHitRate takes: the hit/miss counters.
tableCacheByHits(mm, c) ==
    With(statusFloat(mm, "Table_open_cache_hits"), LAMBDA hitsF :
    With(statusFloat(mm, "Table_open_cache_misses"), LAMBDA missF :
    With(FAdd(hitsF, missF), LAMBDA denom :
    With(pct(hitsF, denom), LAMBDA p :
        IF ~p.ok THEN Skip(c)
        ELSE Rated(c, fmtPct(p.v),
                   IF FGe(p.v, F(90)) THEN LevelOK ELSE LevelWarn)))))

\* The branch checkTableCacheHitRate falls back to: open/opened tables.
tableCacheByOpened(mm, c) ==
    With(statusFloat(mm, "Open_tables"), LAMBDA openTables :
    With(statusFloat(mm, "Opened_tables"), LAMBDA openedTables :
    With(pct(openTables, openedTables), LAMBDA p :
        IF ~p.ok THEN Skip(c)
        ELSE Rated(c, fmtPct(p.v),
                   IF FGe(p.v, F(90)) THEN LevelOK ELSE LevelWarn))))

checkTableCacheHitRate(mm) ==
    IF "Table_open_cache_hits" \in DOMAIN mm.Status
    THEN tableCacheByHits(mm, checkTableCacheHitRate_c)
    ELSE tableCacheByOpened(mm, checkTableCacheHitRate_c)

checkTableDefCacheHitRate(mm) ==
    LET c == checkTableDefCacheHitRate_c
    IN  With(statusFloat(mm, "Open_table_definitions"), LAMBDA openDefs :
        With(statusFloat(mm, "Opened_table_definitions"), LAMBDA openedDefs :
        With(pct(openDefs, openedDefs), LAMBDA p :
            IF ~p.ok THEN Skip(c)
            ELSE Rated(c, fmtPct(p.v),
                       IF FGt(p.v, F(75)) THEN LevelOK ELSE LevelWarn))))

checkTableLockingEfficiency(mm) ==
    LET c == checkTableLockingEfficiency_c
    IN  With(statusFloat(mm, "Table_locks_immediate"), LAMBDA immediate :
        With(statusFloat(mm, "Table_locks_waited"), LAMBDA waited :
        With(FAdd(immediate, waited), LAMBDA denom :
        With(pct(immediate, denom), LAMBDA p :
            IF ~p.ok THEN Skip(c)
            ELSE Rated(c, fmtPct(p.v),
                       IF FGt(p.v, F(95)) THEN LevelOK ELSE LevelWarn)))))

\* A variant of RunCacheChecks that leaves out the results that are N/A.
RunCacheChecksDroppingSkipped(mm) ==
    SelectSeq(<<checkThreadCacheHitRate(mm), checkThreadCacheRatio(mm),
                checkTableCacheHitRate(mm), checkTableDefCacheHitRate(mm),
                checkTableLockingEfficiency(mm)>>,
              LAMBDA ch : ch.Level # LevelSkip)

RunCacheChecks(mm) ==
    <<checkThreadCacheHitRate(mm), checkThreadCacheRatio(mm),
      checkTableCacheHitRate(mm), checkTableDefCacheHitRate(mm),
      checkTableLockingEfficiency(mm)>>

checkSortMergePassRatio(mm) ==
    LET c == checkSortMergePassRatio_c
    IN  With(statusFloat(mm, "Sort_merge_passes"), LAMBDA passes :
        With(statusFloat(mm, "Sort_scan"), LAMBDA scans :
        With(statusFloat(mm, "Sort_range"), LAMBDA ranges :
        With(FAdd(scans, ranges), LAMBDA denom :
        With(pct(passes, denom), LAMBDA p :
            IF ~p.ok THEN Skip(c)
            ELSE Rated(c, fmtPct(p.v),
                       IF FLt(p.v, F(10)) THEN LevelOK ELSE LevelWarn))))))

\* A variant of checkTempDiskData whose threshold is exclusive (v < 25).
checkTempDiskDataExclusive(mm) ==
    LET c == checkTempDiskData_c
    IN  With(statusFloat(mm, "Created_tmp_disk_tables"), LAMBDA diskTables :
        With(statusFloat(mm, "Created_tmp_tables"), LAMBDA totalTables :
        With(pct(diskTables, totalTables), LAMBDA p :
            IF ~p.ok THEN Skip(c)
            ELSE Rated(c, fmtPct(p.v),
                       IF FLt(p.v, F(25)) THEN LevelOK ELSE LevelWarn))))

checkTempDiskData(mm) ==
    LET c == checkTempDiskData_c
    IN  With(statusFloat(mm, "Created_tmp_disk_tables"), LAMBDA diskTables :
        With(statusFloat(mm, "Created_tmp_tables"), LAMBDA totalTables :
        With(pct(diskTables, totalTables), LAMBDA p :
            IF ~p.ok THEN Skip(c)
            ELSE Rated(c, fmtPct(p.v),
                       IF FLe(p.v, F(25)) THEN LevelOK ELSE LevelWarn))))

\* A variant of checkFlushingLogs whose upper threshold is exclusive (v < 20).
checkFlushingLogsExclusive(mm) ==
    LET c == checkFlushingLogs_c
    IN  With(statusFloat(mm, "Innodb_log_waits"), LAMBDA waits :
        With(statusFloat(mm, "Innodb_log_writes"), LAMBDA writes :
        With(pct(waits, writes), LAMBDA p :
            IF ~p.ok THEN Skip(c)
            ELSE Rated(c, fmtPct(p.v),
                       IF FLt(p.v, F(5)) THEN LevelOK
                       ELSE IF FLt(p.v, F(20)) THEN LevelWarn
                       ELSE LevelCrit))))

checkFlushingLogs(mm) ==
    LET c == checkFlushingLogs_c
    IN  With(statusFloat(mm, "Innodb_log_waits"), LAMBDA waits :
        With(statusFloat(mm, "Innodb_log_writes"), LAMBDA writes :
        With(pct(waits, writes), LAMBDA p :
            IF ~p.ok THEN Skip(c)
            ELSE Rated(c, fmtPct(p.v),
                       IF FLt(p.v, F(5)) THEN LevelOK
                       ELSE IF FLe(p.v, F(20)) THEN LevelWarn
                       ELSE LevelCrit))))

\* A variant of checkQCacheFragmentation that rates an undefined delete rate
\* (Qcache_inserts = 0) as WARN.
checkQCacheFragmentationNeedsDelRate(mm) ==
    LET c == checkQCacheFragmentation_c
        S == mm.Status
    IN  IF \/ "Qcache_free_blocks" \notin DOMAIN S
           \/ "Qcache_total_blocks" \notin DOMAIN S
           \/ "Qcache_lowmem_prunes" \notin DOMAIN S
           \/ "Qcache_inserts" \notin DOMAIN S
        THEN Skip(c)
        ELSE With(ParseFloat(S["Qcache_free_blocks"]), LAMBDA freeF :
             With(ParseFloat(S["Qcache_total_blocks"]), LAMBDA totalF :
             With(ParseFloat(S["Qcache_lowmem_prunes"]), LAMBDA prunesF :
             With(ParseFloat(S["Qcache_inserts"]), LAMBDA insertsF :
             With(pct(freeF, totalF), LAMBDA frag :
             With(FGt(insertsF, F(0)), LAMBDA delRateOK :
             With(IF delRateOK THEN FDiv(FMul(prunesF, F(100)), insertsF) ELSE F(0),
                  LAMBDA delRate :
                 IF ~frag.ok THEN Skip(c)
                 ELSE Rated(c,
                            <<"f", "r", "a", "g", "=">> \o Fmt2(frag.v)
                                \o <<"%", " ", "d", "e", "l", "=">> \o Fmt2(delRate)
                                \o <<"%">>,
                            IF FLt(frag.v, F(10)) /\ delRateOK /\ FLt(delRate, F(20))
                            THEN LevelOK ELSE LevelWarn))))))))

checkQCacheFragmentation(mm) ==
    LET c == checkQCacheFragmentation_c
        S == mm.Status
    IN  IF \/ "Qcache_free_blocks" \notin DOMAIN S
           \/ "Qcache_total_blocks" \notin DOMAIN S
           \/ "Qcache_lowmem_prunes" \notin DOMAIN S
           \/ "Qcache_inserts" \notin DOMAIN S
        THEN Skip(c)
        ELSE With(ParseFloat(S["Qcache_free_blocks"]), LAMBDA freeF :
             With(ParseFloat(S["Qcache_total_blocks"]), LAMBDA totalF :
             With(ParseFloat(S["Qcache_lowmem_prunes"]), LAMBDA prunesF :
             With(ParseFloat(S["Qcache_inserts"]), LAMBDA insertsF :
             With(pct(freeF, totalF), LAMBDA frag :
             With(FGt(insertsF, F(0)), LAMBDA delRateOK :
             With(IF delRateOK THEN FDiv(FMul(prunesF, F(100)), insertsF) ELSE F(0),
                  LAMBDA delRate :
                 IF ~frag.ok THEN Skip(c)
                 ELSE Rated(c,
                            <<"f", "r", "a", "g", "=">> \o Fmt2(frag.v)
                                \o <<"%", " ", "d", "e", "l", "=">> \o Fmt2(delRate)
                                \o <<"%">>,
                            IF FLt(frag.v, F(10)) /\ (~delRateOK \/ FLt(delRate, F(20)))
                            THEN LevelOK ELSE LevelWarn))))))))

TruncationQuery ==
    "SELECT COUNT(*) FROM performance_schema.events_statements_history WHERE SQL_TEXT LIKE '%...'"

\* A variant of checkQueryTruncation that reports a failed query as no
\* truncation.
checkQueryTruncationErrAsZero(q) ==
    LET c == checkQueryTruncation_c
    IN  With(IF q.err THEN 0 ELSE Atoi(q.val), LAMBDA count :
             IF count > 0
             THEN Rated(c,
                        <<"T", "R", "U", "E", " ", "(">> \o IntToStr(count)
                            \o <<" ", "t", "r", "u", "n", "c", "a", "t", "e", "d", ")">>,
                        LevelWarn)
             ELSE Rated(c, <<"F", "A", "L", "S", "E">>, LevelOK))

\* q: what MySQL.QueryScalar answers for TruncationQuery: err, or the value.
checkQueryTruncation(q) ==
    LET c == checkQueryTruncation_c
    IN  IF q.err THEN Skip(c)
        ELSE With(Atoi(q.val), LAMBDA count :
                 IF count > 0
                 THEN Rated(c,
                            <<"T", "R", "U", "E", " ", "(">> \o IntToStr(count)
                                \o <<" ", "t", "r", "u", "n", "c", "a", "t", "e", "d", ")">>,
                            LevelWarn)
                 ELSE Rated(c, <<"F", "A", "L", "S", "E">>, LevelOK))

RunQueryChecks(mm, q) ==
    <<checkSortMergePassRatio(mm), checkTempDiskData(mm), checkFlushingLogs(mm),
      checkQCacheFragmentation(mm), checkQueryTruncation(q)>>

-----------------------------------------------------------------------------
(* The environment of a run: what the server and the host may answer       *)

EmptyMap == <<>>

RemoveKey(f, k) == [x \in (DOMAIN f) \ {k} |-> f[x]]

SetKey(f, k, v) == [x \in (DOMAIN f) \cup {k} |-> IF x = k THEN v ELSE f[x]]

\* A server in good health: every check that can be computed is OK.
HealthyStatus ==
    [Max_used_connections |-> Str(20), Open_files |-> Str(50),
     Key_reads |-> Str(1), Key_read_requests |-> Str(100),
     Key_writes |-> Str(5), Key_write_requests |-> Str(100),
     Innodb_buffer_pool_read_requests |-> Str(1000),
     Innodb_buffer_pool_reads |-> Str(10),
     Uptime |-> Str(3600), Innodb_os_log_written |-> Str(1000),
     Innodb_buffer_pool_pages_dirty |-> Str(10),
     Innodb_buffer_pool_pages_total |-> Str(100),
     Threads_created |-> Str(40), Connections |-> Str(100),
     Threads_cached |-> Str(8),
     Table_open_cache_hits |-> Str(90), Table_open_cache_misses |-> Str(10),
     Open_tables |-> Str(5), Opened_tables |-> Str(1000),
     Open_table_definitions |-> Str(80), Opened_table_definitions |-> Str(100),
     Table_locks_immediate |-> Str(99), Table_locks_waited |-> Str(1),
     Sort_merge_passes |-> Str(1), Sort_scan |-> Str(50), Sort_range |-> Str(50),
     Created_tmp_disk_tables |-> Str(10), Created_tmp_tables |-> Str(100),
     Innodb_log_waits |-> Str(0), Innodb_log_writes |-> Str(100),
     Qcache_free_blocks |-> Str(1), Qcache_total_blocks |-> Str(100),
     Qcache_lowmem_prunes |-> Str(1), Qcache_inserts |-> Str(100)]

\* A server under load: warnings and critical levels.
StressedStatus ==
    [Max_used_connections |-> Str(90), Open_files |-> Str(900),
     Key_reads |-> Str(50), Key_read_requests |-> Str(100),
     Key_writes |-> Str(50), Key_write_requests |-> Str(100),
     Innodb_buffer_pool_read_requests |-> Str(1000),
     Innodb_buffer_pool_reads |-> Str(500),
     Uptime |-> Str(60), Innodb_os_log_written |-> Str(100000),
     Innodb_buffer_pool_pages_dirty |-> Str(80),
     Innodb_buffer_pool_pages_total |-> Str(100),
     Threads_created |-> Str(90), Connections |-> Str(100),
     Threads_cached |-> Str(1),
     Table_open_cache_hits |-> Str(10), Table_open_cache_misses |-> Str(90),
     Open_tables |-> Str(5), Opened_tables |-> Str(1000),
     Open_table_definitions |-> Str(10), Opened_table_definitions |-> Str(100),
     Table_locks_immediate |-> Str(50), Table_locks_waited |-> Str(50),
     Sort_merge_passes |-> Str(50), Sort_scan |-> Str(50), Sort_range |-> Str(50),
     Created_tmp_disk_tables |-> Str(50), Created_tmp_tables |-> Str(100),
     Innodb_log_waits |-> Str(30), Innodb_log_writes |-> Str(100),
     Qcache_free_blocks |-> Str(50), Qcache_total_blocks |-> Str(100),
     Qcache_lowmem_prunes |-> Str(50), Qcache_inserts |-> Str(100)]

\* A server that has just started: every counter is zero.
IdleStatus == [k \in DOMAIN HealthyStatus |-> Str(0)]

ServerVars ==
    [datadir |-> <<"/", "d">>, max_connections |-> Str(100),
     open_files_limit |-> Str(1000), innodb_redo_log_capacity |-> Str(60000),
     innodb_log_files_in_group |-> Str(2), innodb_log_file_size |-> Str(30000)]

Versions ==
    {<<"8", ".", "0", ".", "3", "6">>,
     <<"8", ".", "0", ".", "2", "9">>,
     <<"5", ".", "7", ".", "4", "4", "-", "l", "o", "g">>,
     <<"1", "0", ".", "1", "1", ".", "6", "-", "M", "a", "r", "i", "a", "D", "B">>}

\* The two versions on either side of 8.0.30.
RecentVersions ==
    {<<"8", ".", "0", ".", "3", "6">>, <<"8", ".", "0", ".", "2", "9">>}

\* The snapshots a run may load: one of the three servers, with at most one
\* status counter or one variable missing (an older version, a subsystem
\* switched off).
Snapshots ==
    LET statuses == {HealthyStatus, StressedStatus, IdleStatus}
    IN  {[Status |-> s, Vars |-> ServerVars, Version |-> v] :
             s \in statuses, v \in Versions}
        \cup {[Status |-> RemoveKey(s, k), Vars |-> ServerVars, Version |-> v] :
                  s \in statuses, k \in DOMAIN HealthyStatus, v \in RecentVersions}
        \cup {[Status |-> s, Vars |-> RemoveKey(ServerVars, k), Version |-> v] :
                  s \in statuses, k \in DOMAIN ServerVars, v \in RecentVersions}

CPUFound(t1, t2, cpus) ==
    [pidFound |-> TRUE, t1ok |-> TRUE, t1 |-> t1, t2ok |-> TRUE, t2 |-> t2, cpus |-> cpus]

QuietCPU == CPUFound(1000, 1030, 1)

GoodFS == [ok |-> TRUE, Blocks |-> 100, Bfree |-> 90, Bsize |-> 4096]

GoodMem == [ok |-> TRUE, hasTotal |-> TRUE, totalKB |-> 1000,
            hasAvail |-> TRUE, availKB |-> 500]

CPUHosts ==
    {QuietCPU,
     [QuietCPU EXCEPT !.pidFound = FALSE],
     [QuietCPU EXCEPT !.t1ok = FALSE],
     [QuietCPU EXCEPT !.t2ok = FALSE],
     CPUFound(1000, 1270, 1),
     CPUFound(1000, 1600, 1),
     CPUFound(1000, 1600, 2)}

FSHosts ==
    {GoodFS,
     [GoodFS EXCEPT !.ok = FALSE],
     [GoodFS EXCEPT !.Bfree = 10],
     [GoodFS EXCEPT !.Blocks = 0, !.Bfree = 0]}

MemHosts ==
    {GoodMem,
     [GoodMem EXCEPT !.ok = FALSE],
     [GoodMem EXCEPT !.availKB = 100],
     [GoodMem EXCEPT !.hasAvail = FALSE],
     [GoodMem EXCEPT !.hasTotal = FALSE]}

\* The host answers of a run: a quiet host, or one that differs from it in
\* one of the three readings.
Hosts ==
    {<<h, GoodFS, GoodMem>> : h \in CPUHosts}
        \cup {<<QuietCPU, f, GoodMem>> : f \in FSHosts}
        \cup {<<QuietCPU, GoodFS, x>> : x \in MemHosts}

MaxTruncated == 1

\* What QueryScalar answers: an error, or a count as text.
QueryAnswers ==
    {[err |-> TRUE, val |-> <<>>]}
        \cup {[err |-> FALSE, val |-> Str(n)] : n \in 0..MaxTruncated}

SampleSeconds == {3}

-----------------------------------------------------------------------------
(* main()                                                                  *)

NoResult == [Name |-> "none"]

Init ==
    /\ pc = "start"
    /\ flags \in [showVersion : BOOLEAN, sampleSeconds : SampleSeconds]
    /\ defers = <<>>
    /\ exitCode = -1
    /\ failed = "none"
    /\ tookDefault = FALSE
    /\ session = "none"
    /\ queries = <<>>
    /\ m = [Status |-> EmptyMap, Vars |-> EmptyMap, Version |-> <<>>]
    /\ loaded = [Status |-> EmptyMap, Vars |-> EmptyMap, Version |-> <<>>]
    /\ categories = <<>>
    /\ rendered = FALSE
    /\ slept = 0
    /\ result = NoResult
    /\ shellOverall = 0
    /\ passed = <<>>

\* os.Exit(code): the process ends at once; deferred calls are not run.
Exit(code) ==
    /\ pc' = "exited"
    /\ exitCode' = code
    /\ UNCHANGED <<defers, session>>

\* if *showVersion { ...; os.Exit(0) }
ShowVersion ==
    /\ pc = "start"
    /\ flags.showVersion
    /\ Exit(0)
    /\ UNCHANGED <<flags, shellOverall, passed, failed, tookDefault, queries, m, loaded,
                   categories, rendered, slept, result>>

\* cfg, err := config.ParseMyCnf(*cnfPath); on an error os.Exit(2)
ParseMyCnf ==
    /\ pc = "start"
    /\ ~flags.showVersion
    /\ \E ok \in BOOLEAN :
          IF ok
          THEN /\ pc' = "connect"
               /\ UNCHANGED <<exitCode, failed, defers, session>>
          ELSE /\ Exit(2)
               /\ failed' = "cnf"
    /\ UNCHANGED <<flags, shellOverall, passed, tookDefault, queries, m, loaded, categories,
                   rendered, slept, result>>

\* m, err := db.Connect(cfg); on an error os.Exit(2); defer m.Close()
Connect ==
    /\ pc = "connect"
    /\ \E outcome \in {"open fails", "ping fails", "ok"} :
          CASE outcome = "open fails" ->
                   /\ Exit(2)
                   /\ failed' = "connect"
            [] outcome = "ping fails" ->
                   \* conn.Close() inside Connect
                   /\ pc' = "exited"
                   /\ exitCode' = 2
                   /\ session' = "closed"
                   /\ failed' = "connect"
                   /\ UNCHANGED defers
            [] OTHER ->
                   /\ pc' = "load"
                   /\ session' = "open"
                   /\ defers' = <<"m.Close">>
                   /\ UNCHANGED <<exitCode, failed>>
    /\ UNCHANGED <<flags, shellOverall, passed, tookDefault, queries, m, loaded, categories,
                   rendered, slept, result>>

\* The three statements of LoadAll, and what each leaves in m when the
\* statement numbered failAt fails (0: none fails).
LoadInto(mm, s, failAt) ==
    [Status |-> IF failAt = 1 THEN EmptyMap ELSE s.Status,
     Vars |-> IF failAt = 1 THEN mm.Vars
              ELSE IF failAt = 2 THEN EmptyMap ELSE s.Vars,
     Version |-> IF failAt = 0 THEN s.Version ELSE mm.Version]

LoadQueries(failAt) ==
    SubSeq(<<"SHOW GLOBAL STATUS", "SHOW GLOBAL VARIABLES", "SELECT VERSION()">>,
           1, IF failAt = 0 THEN 3 ELSE failAt)

\* A variant of LoadAll whose caller reports the error and carries on.
LoadAllContinues ==
    /\ pc = "load"
    /\ \E s \in Snapshots, failAt \in 0..3 :
          /\ m' = LoadInto(m, s, failAt)
          /\ queries' = queries \o LoadQueries(failAt)
          /\ loaded' = m'
          /\ failed' = IF failAt = 0 THEN failed ELSE "load"
    /\ pc' = "system"
    /\ UNCHANGED <<flags, shellOverall, passed, defers, exitCode, session, tookDefault,
                   categories, rendered, slept, result>>

\* if err := m.LoadAll(); err != nil { ...; os.Exit(2) }
LoadAll ==
    /\ pc = "load"
    /\ \E s \in Snapshots, failAt \in 0..3 :
          /\ m' = LoadInto(m, s, failAt)
          /\ queries' = queries \o LoadQueries(failAt)
          /\ IF failAt = 0
             THEN /\ pc' = "system"
                  /\ loaded' = m'
                  /\ UNCHANGED <<exitCode, failed, defers, session>>
             ELSE /\ Exit(2)
                  /\ failed' = "load"
                  /\ UNCHANGED loaded
    /\ UNCHANGED <<flags, shellOverall, passed, tookDefault, categories, rendered, slept, result>>

\* A variant of System that may run as soon as the session is open.
SystemBeforeLoad ==
    /\ pc \in {"load", "system"}
    /\ \E h \in Hosts :
          /\ categories' = Append(categories,
                 [Name |-> "System",
                  Checks |-> RunSystemChecks(m, flags.sampleSeconds, h[1], h[2], h[3])])
          /\ slept' = slept + checkCPUSleeps(h[1])
    /\ pc' = "engine"
    /\ UNCHANGED <<flags, shellOverall, passed, defers, exitCode, failed, tookDefault,
                   session, queries, m, loaded, rendered, result>>

\* {Name: "System", Checks: checks.RunSystemChecks(m, *sampleSeconds)}
System ==
    /\ pc = "system"
    /\ \E h \in Hosts :
          /\ categories' = Append(categories,
                 [Name |-> "System",
                  Checks |-> RunSystemChecks(m, flags.sampleSeconds, h[1], h[2], h[3])])
          /\ slept' = slept + checkCPUSleeps(h[1])
    /\ pc' = "engine"
    /\ UNCHANGED <<flags, shellOverall, passed, defers, exitCode, failed, tookDefault,
                   session, queries, m, loaded, rendered, result>>

\* A variant of Engine whose checks store 0 in m.Status for Key_reads.
EngineFillsDefaults ==
    /\ pc = "engine"
    /\ categories' = Append(categories,
           [Name |-> "MyISAM / InnoDB", Checks |-> RunEngineChecks(m)])
    /\ m' = [m EXCEPT !.Status = SetKey(@, "Key_reads", Str(0))]
    /\ pc' = "cache"
    /\ UNCHANGED <<flags, shellOverall, passed, defers, exitCode, failed, tookDefault,
                   session, queries, loaded, rendered, slept, result>>

\* {Name: "MyISAM / InnoDB", Checks: checks.RunEngineChecks(m)}
Engine ==
    /\ pc = "engine"
    /\ categories' = Append(categories,
           [Name |-> "MyISAM / InnoDB", Checks |-> RunEngineChecks(m)])
    /\ pc' = "cache"
    /\ UNCHANGED <<flags, shellOverall, passed, defers, exitCode, failed, tookDefault,
                   session, queries, m, loaded, rendered, slept, result>>

\* {Name: "Memory", Checks: checks.RunCacheChecks(m)}
Cache ==
    /\ pc = "cache"
    /\ categories' = Append(categories,
           [Name |-> "Memory", Checks |-> RunCacheChecks(m)])
    /\ pc' = "query"
    /\ UNCHANGED <<flags, shellOverall, passed, defers, exitCode, failed, tookDefault,
                   session, queries, m, loaded, rendered, slept, result>>

\* {Name: "Queries / Logs", Checks: checks.RunQueryChecks(m)}
Query ==
    /\ pc = "query"
    /\ \E q \in QueryAnswers :
          categories' = Append(categories,
              [Name |-> "Queries / Logs", Checks |-> RunQueryChecks(m, q)])
    /\ queries' = Append(queries, TruncationQuery)
    /\ pc' = "render"
    /\ UNCHANGED <<flags, shellOverall, passed, defers, exitCode, failed, tookDefault,
                   session, m, loaded, rendered, slept, result>>

\* Level.String()
String(l) ==
    CASE l = LevelOK -> "OK"
      [] l = LevelWarn -> "WARN"
      [] l = LevelCrit -> "CRIT"
      [] l = LevelSkip -> "SKIP"
      [] OTHER -> "UNKNOWN"

valCol == 18

\* if len(val) > valCol { val = val[:valCol-1] + "." }
Cut(val) == IF Len(val) > valCol THEN SubSeq(val, 1, valCol - 1) \o <<".">> ELSE val

\* One line of the issue table.  The names of the twenty checks are shorter
\* than nameCol and are printed whole; the Threshold column is left out.
IssueRow(ch) == [name |-> ch.Name, val |-> Cut(ch.Value), tag |-> String(ch.Level)]

\* A variant of renderSummary that lists every check whose Level is at least
\* LevelWarn, LevelSkip included.
renderSummaryCountingSkip(cats) ==
    LET issues[i \in 0..Len(cats)] ==
            IF i = 0 THEN <<>>
            ELSE issues[i - 1]
                     \o SelectSeq(cats[i].Checks, LAMBDA ch : ch.Level >= LevelWarn)
    IN  With(issues[Len(cats)], LAMBDA found :
        With(OverallLevel(cats), LAMBDA worst :
            IF Len(found) = 0
            THEN [passed |-> TRUE, overall |-> "OK", count |-> 0, rows |-> <<>>]
            ELSE [passed |-> FALSE, overall |-> String(worst), count |-> Len(found),
                  rows |-> [k \in 1..Len(found) |-> IssueRow(found[k])]]))

\* Renderer.renderSummary: what it prints.  passed: the line "Overall: OK -
\* All checks passed"; otherwise "Overall: <overall>  <count> issue(s)
\* found" and one row for each issue.
renderSummary(cats) ==
    LET issues[i \in 0..Len(cats)] ==
            IF i = 0 THEN <<>>
            ELSE issues[i - 1]
                     \o SelectSeq(cats[i].Checks,
                            LAMBDA ch : ch.Level = LevelWarn \/ ch.Level = LevelCrit)
    IN  With(issues[Len(cats)], LAMBDA found :
        With(OverallLevel(cats), LAMBDA worst :
            IF Len(found) = 0
            THEN [passed |-> TRUE, overall |-> "OK", count |-> 0, rows |-> <<>>]
            ELSE [passed |-> FALSE, overall |-> String(worst), count |-> Len(found),
                  rows |-> [k \in 1..Len(found) |-> IssueRow(found[k])]]))

\* renderer.Render(categories, m.Version, hostname, *cnfPath)
Render ==
    /\ pc = "render"
    /\ rendered' = TRUE
    /\ result' = renderSummary(categories)
    /\ pc' = "exit"
    /\ UNCHANGED <<flags, shellOverall, passed, defers, exitCode, failed, tookDefault,
                   session, queries, m, loaded, categories, slept>>

\* A variant of ExitSwitch whose LevelCrit case exits with the code of LevelWarn.
ExitSwitchCritAsWarn ==
    /\ pc = "exit"
    /\ LET overall == OverallLevel(categories)
       IN  /\ Exit(IF overall = LevelOK THEN 0 ELSE 1)
           /\ tookDefault' = (overall \notin {LevelOK, LevelWarn, LevelCrit})
    /\ UNCHANGED <<flags, shellOverall, passed, failed, queries, m, loaded, categories,
                   rendered, slept, result>>

\* overall := checks.OverallLevel(categories); switch overall { ... }
ExitSwitch ==
    /\ pc = "exit"
    /\ LET overall == OverallLevel(categories)
       IN  /\ Exit(CASE overall = LevelOK -> 0
                     [] overall = LevelWarn -> 1
                     [] overall = LevelCrit -> 2
                     [] OTHER -> 1)
           /\ tookDefault' = (overall \notin {LevelOK, LevelWarn, LevelCrit})
    /\ UNCHANGED <<flags, shellOverall, passed, failed, queries, m, loaded, categories,
                   rendered, slept, result>>

Next ==
    \/ ShowVersion
    \/ ParseMyCnf
    \/ Connect
    \/ LoadAll
    \/ System
    \/ Engine
    \/ Cache
    \/ Query
    \/ Render
    \/ ExitSwitch

Spec == Init /\ [][Next]_vars


-----------------------------------------------------------------------------
(* Aggregation on its own: categories grown one check at a time            *)

MaxCats == 2

MaxChecks == 3

\* The number of checks in all the categories together.
TotalChecks(cats) ==
    Cardinality(UNION {{<<i, j>> : j \in 1..Len(cats[i].Checks)} : i \in 1..Len(cats)})

\* The variables of main() that a harness leaves alone.
MainIdle ==
    /\ flags = [showVersion |-> FALSE, sampleSeconds |-> 3]
    /\ defers = <<>>
    /\ exitCode = -1
    /\ failed = "none"
    /\ tookDefault = FALSE
    /\ session = "none"
    /\ queries = <<>>
    /\ loaded = [Status |-> EmptyMap, Vars |-> EmptyMap, Version |-> <<>>]
    /\ rendered = FALSE
    /\ slept = 0
    /\ shellOverall = 0
    /\ passed = <<>>

InitAgg ==
    /\ pc = "agg"
    /\ MainIdle
    /\ m = [Status |-> EmptyMap, Vars |-> EmptyMap, Version |-> <<>>]
    /\ categories = <<>>
    /\ result = NoResult

\* categories = append(categories, Category{Name: ...})
AddCategory ==
    /\ pc = "agg"
    /\ Len(categories) < MaxCats
    /\ categories' = Append(categories, [Name |-> "category", Checks |-> <<>>])
    /\ UNCHANGED <<pc, flags, shellOverall, passed, defers, exitCode, failed, tookDefault,
                   session, queries, m, loaded, rendered, slept, result>>

\* categories[i].Checks = append(categories[i].Checks, Check{Level: l})
AddCheck ==
    /\ pc = "agg"
    /\ \E i \in 1..Len(categories), l \in Levels :
          /\ TotalChecks(categories) < MaxChecks
          /\ categories' = [categories EXCEPT
                 ![i].Checks = Append(@, [Name |-> "check", Level |-> l])]
    /\ UNCHANGED <<pc, flags, shellOverall, passed, defers, exitCode, failed, tookDefault,
                   session, queries, m, loaded, rendered, slept, result>>

NextAgg ==
    \/ AddCategory
    \/ AddCheck

SpecAgg == InitAgg /\ [][NextAgg]_vars

-----------------------------------------------------------------------------
(* Single checks on chosen snapshots                                       *)

\* An optional counter: <<>> when the key is absent, <<n>> when it holds n.
OptKey(f, k, o) == IF o = <<>> THEN RemoveKey(f, k) ELSE SetKey(f, k, Str(o[1]))

DefaultVersion == <<"8", ".", "0", ".", "3", "6">>

UsedValues == {0, 1, 2, 69, 70, 71, 84, 85, 86, 100, 140, 170}

ConnValues == {<<>>, <<0>>, <<1>>, <<3>>, <<100>>, <<200>>}

ConnSnapshot(u, c) ==
    [Status |-> SetKey(HealthyStatus, "Max_used_connections", Str(u)),
     Vars |-> OptKey(ServerVars, "max_connections", c),
     Version |-> DefaultVersion]

HitValues == {<<>>, <<0>>, <<10>>, <<90>>}

OpenValues == {<<>>, <<5>>, <<950>>}

OpenedValues == {<<>>, <<0>>, <<1000>>}

TableSnapshot(hits, misses, open, opened) ==
    [Status |-> OptKey(OptKey(OptKey(OptKey(HealthyStatus,
                    "Table_open_cache_hits", hits),
                    "Table_open_cache_misses", misses),
                    "Open_tables", open),
                    "Opened_tables", opened),
     Vars |-> ServerVars,
     Version |-> DefaultVersion]

\* Versions as <<major, minor, patch, suffix>>.
RedoVersions ==
    {<<8, 0, 36, <<>>>>, <<8, 0, 30, <<>>>>, <<8, 0, 29, <<>>>>, <<8, 1, 0, <<>>>>,
     <<9, 0, 1, <<>>>>, <<7, 9, 99, <<>>>>,
     <<5, 7, 44, <<"-", "l", "o", "g">>>>,
     <<8, 0, 30, <<"-", "0", "u", "b", "u", "n", "t", "u">>>>,
     <<10, 11, 6, <<"-", "M", "a", "r", "i", "a", "D", "B">>>>}

VersionText(t) ==
    NatToStr(t[1]) \o <<".">> \o NatToStr(t[2]) \o <<".">> \o NatToStr(t[3]) \o t[4]

CapValues == {<<>>, <<0>>, <<60000>>}

FilesValues == {<<>>, <<0>>, <<2>>}

SizeValues == {<<>>, <<0>>, <<15000>>}

\* Uptime 3600 s and 60000 bytes written: the check reports capacity / 1000
\* minutes.
RedoSnapshot(t, cap, files, size) ==
    [Status |-> SetKey(SetKey(HealthyStatus, "Uptime", Str(3600)),
                       "Innodb_os_log_written", Str(60000)),
     Vars |-> OptKey(OptKey(OptKey(ServerVars,
                  "innodb_redo_log_capacity", cap),
                  "innodb_log_files_in_group", files),
                  "innodb_log_file_size", size),
     Version |-> VersionText(t)]

UptimeValues == {<<>>, <<0>>, <<60>>, <<2700>>, <<3600>>}

WrittenValues == {<<>>, <<0>>, <<1000>>, <<60000>>}

CapacityValues == {1000, 45000, 60000}

\* A server of version 8.0.36 whose innodb_redo_log_capacity is c.
CoverageSnapshot(up, w, c) ==
    [Status |-> OptKey(OptKey(HealthyStatus, "Uptime", up), "Innodb_os_log_written", w),
     Vars |-> SetKey(ServerVars, "innodb_redo_log_capacity", Str(c)),
     Version |-> DefaultVersion]

WaitValues == {0, 4, 5, 6, 9, 10, 19, 20, 21, 40, 41, 100}

WriteValues == {<<>>, <<0>>, <<3>>, <<100>>, <<200>>}

FlushSnapshot(waits, writes) ==
    [Status |-> OptKey(SetKey(HealthyStatus, "Innodb_log_waits", Str(waits)),
                       "Innodb_log_writes", writes),
     Vars |-> ServerVars,
     Version |-> DefaultVersion]

FreeValues == {<<>>, <<0>>, <<9>>, <<10>>, <<50>>}

TotalValues == {<<>>, <<0>>, <<100>>}

PruneValues == {<<>>, <<0>>, <<19>>, <<20>>, <<50>>}

InsertValues == {<<>>, <<0>>, <<100>>}

QCacheSnapshot(free, total, prunes, inserts) ==
    [Status |-> OptKey(OptKey(OptKey(OptKey(HealthyStatus,
                    "Qcache_free_blocks", free),
                    "Qcache_total_blocks", total),
                    "Qcache_lowmem_prunes", prunes),
                    "Qcache_inserts", inserts),
     Vars |-> ServerVars,
     Version |-> DefaultVersion]

DefaultSnapshot ==
    [Status |-> HealthyStatus, Vars |-> ServerVars, Version |-> DefaultVersion]

\* -sample-seconds is any int: negative, zero or positive.
SampleValues == {-1, 0, 1, 3}

TickDeltas == {0, 80, 81, 100, 101, 240, 241, 300, 301, 600}

CPUCounts == {1, 2}

\* What the host may answer to checkCPU: one of the three failures, or two
\* readings d ticks apart on a host of n processors.
CPUInputs ==
    {[QuietCPU EXCEPT !.pidFound = FALSE],
     [QuietCPU EXCEPT !.t1ok = FALSE],
     [QuietCPU EXCEPT !.t2ok = FALSE]}
        \cup {CPUFound(1000, 1000 + d, n) : d \in TickDeltas, n \in CPUCounts}

TruncCounts == {0, 1, 3, 12}

TruncAnswers ==
    {[err |-> TRUE, val |-> <<>>]} \cup {[err |-> FALSE, val |-> Str(n)] : n \in TruncCounts}

PercentValues ==
    {0, 9, 10, 11, 24, 25, 26, 49, 50, 51, 60, 74, 75, 76, 79, 80, 81, 84, 85, 86,
     89, 90, 91, 94, 95, 96, 100}

TwoLevelNames ==
    {"Thread Cache Hit Rate", "Thread Cache Ratio", "MyISAM Cache Hit Rate",
     "MyISAM Key Write Ratio", "InnoDB Cache Hit Rate", "Table Cache Hit Rate",
     "Table Def Cache Hit Rate", "Table Locking Efficiency", "Sort Merge Passes Ratio",
     "Temporary Disk Data", "Memory Utilization", "Disk Space Usage",
     "Open Files Utilization", "InnoDB Dirty Pages Ratio"}

\* HealthyStatus with the counters ks set to the numbers ns.
WithCounters(ks, ns) ==
    [Status |-> [k \in DOMAIN HealthyStatus |->
                    IF \E i \in 1..Len(ks) : ks[i] = k
                    THEN Str(ns[CHOOSE i \in 1..Len(ks) : ks[i] = k])
                    ELSE HealthyStatus[k]],
     Vars |-> ServerVars,
     Version |-> DefaultVersion]

\* The two-level check called name, on inputs chosen so that its value is n%.
TwoLevelCheck(name, n) ==
    CASE name = "Thread Cache Hit Rate" ->
             checkThreadCacheHitRate(
                 WithCounters(<<"Threads_created", "Connections">>, <<100 - n, 100>>))
      [] name = "Thread Cache Ratio" ->
             checkThreadCacheRatio(
                 WithCounters(<<"Threads_cached", "Threads_created">>, <<n, 100>>))
      [] name = "MyISAM Cache Hit Rate" ->
             checkMyISAMCacheHitRate(
                 WithCounters(<<"Key_reads", "Key_read_requests">>, <<100 - n, 100>>))
      [] name = "MyISAM Key Write Ratio" ->
             checkMyISAMKeyWriteRatio(
                 WithCounters(<<"Key_writes", "Key_write_requests">>, <<100 - n, 100>>))
      [] name = "InnoDB Cache Hit Rate" ->
             checkInnoDBCacheHitRate(
                 WithCounters(<<"Innodb_buffer_pool_reads",
                                "Innodb_buffer_pool_read_requests">>, <<100 - n, 100>>))
      [] name = "Table Cache Hit Rate" ->
             checkTableCacheHitRate(
                 WithCounters(<<"Table_open_cache_hits", "Table_open_cache_misses">>,
                              <<n, 100 - n>>))
      [] name = "Table Def Cache Hit Rate" ->
             checkTableDefCacheHitRate(
                 WithCounters(<<"Open_table_definitions", "Opened_table_definitions">>,
                              <<n, 100>>))
      [] name = "Table Locking Efficiency" ->
             checkTableLockingEfficiency(
                 WithCounters(<<"Table_locks_immediate", "Table_locks_waited">>,
                              <<n, 100 - n>>))
      [] name = "Sort Merge Passes Ratio" ->
             checkSortMergePassRatio(
                 WithCounters(<<"Sort_merge_passes", "Sort_scan", "Sort_range">>,
                              <<n, 50, 50>>))
      [] name = "Temporary Disk Data" ->
             checkTempDiskData(
                 WithCounters(<<"Created_tmp_disk_tables", "Created_tmp_tables">>,
                              <<n, 100>>))
      [] name = "Memory Utilization" ->
             checkMemory([GoodMem EXCEPT !.totalKB = 100, !.availKB = 100 - n])
      [] name = "Disk Space Usage" ->
             checkDiskSpace(DefaultSnapshot, [GoodFS EXCEPT !.Blocks = 100, !.Bfree = 100 - n])
      [] name = "Open Files Utilization" ->
             checkOpenFiles([WithCounters(<<"Open_files">>, <<n>>)
                                EXCEPT !.Vars = SetKey(@, "open_files_limit", Str(100))])
      [] OTHER ->
             checkInnoDBDirtyPages(
                 WithCounters(<<"Innodb_buffer_pool_pages_dirty",
                                "Innodb_buffer_pool_pages_total">>, <<n, 100>>))

NumeratorValues == {0, 1, 40, 100, 250}

DenominatorValues == {0, 1, 3, 100}

\* What a counter or a variable may hold as text.
ParseTexts ==
    {<<"0">>, <<"4", "2">>, <<"0", "0", "7">>, <<"3", ".", "5">>, <<"0", ".", "2", "5">>,
     <<"-", "5">>, <<"+", "5">>, <<"1", "e", "3">>, <<"1", "E", "3">>,
     <<"2", "5", "e", "-", "1">>, <<"i", "n", "f">>, <<"I", "n", "f">>,
     <<"-", "i", "n", "f">>, <<"n", "a", "n">>, <<"N", "a", "N">>,
     <<"a", "b", "c">>, <<"O", "N">>, <<>>, <<"5", "x">>, <<" ", "5">>,
     <<"1", ".", "2", ".", "3">>, <<"e", "3">>}

\* <<>> when the key is absent, <<t>> when it holds the text t.
ParseInputs == {<<>>} \cup {<<t>> : t \in ParseTexts}

\* A snapshot whose Uptime counter and max_connections variable are o.
ParseSnapshot(o) ==
    [Status |-> IF o = <<>> THEN RemoveKey(HealthyStatus, "Uptime")
                ELSE SetKey(HealthyStatus, "Uptime", o[1]),
     Vars |-> IF o = <<>> THEN RemoveKey(ServerVars, "max_connections")
              ELSE SetKey(ServerVars, "max_connections", o[1]),
     Version |-> DefaultVersion]

MemTotals == {0, 1000}

MemAvails == {0, 100, 199, 200, 201, 500, 1000}

\* What /proc/meminfo may hold: unreadable, or readable with or without
\* each of the two lines; MemAvailable is at most MemTotal.
MemInputs ==
    {[ok |-> o, hasTotal |-> ht, totalKB |-> t, hasAvail |-> ha, availKB |-> a] :
        o \in BOOLEAN, ht \in BOOLEAN, ha \in BOOLEAN,
        t \in MemTotals, a \in {x \in MemAvails : x <= 1000}}

\* Version strings with the triple (ma, mi, pa) that Sscanf reads from the
\* part before the first "-": scanning stops at the first item that fails.
VersionCases ==
    {[text |-> VersionText(t), triple |-> <<t[1], t[2], t[3]>>] : t \in RedoVersions}
        \cup {[text |-> <<>>, triple |-> <<0, 0, 0>>],
              [text |-> <<"a", "b", "c">>, triple |-> <<0, 0, 0>>],
              [text |-> <<"-", "l", "o", "g">>, triple |-> <<0, 0, 0>>],
              [text |-> <<"-", "9", ".", "0", ".", "0">>, triple |-> <<0, 0, 0>>],
              [text |-> <<"8">>, triple |-> <<8, 0, 0>>],
              [text |-> <<"8", ".", "0">>, triple |-> <<8, 0, 0>>],
              [text |-> <<"8", ".", "4", "-", "3", "0">>, triple |-> <<8, 4, 0>>],
              [text |-> <<"8", ".", "x", ".", "3", "0">>, triple |-> <<8, 0, 0>>],
              [text |-> <<"v", "8", ".", "0", ".", "3", "6">>, triple |-> <<0, 0, 0>>]}

VersionTargets ==
    {<<8, 0, 30>>, <<8, 0, 0>>, <<5, 7, 44>>, <<0, 0, 0>>, <<8, 1, 0>>, <<10, 0, 0>>}

\* Numerators of a ratio whose denominator is 100000: n / 1000 percent.
RoundNumerators ==
    {4994, 4996, 5000, 5004, 19996, 20000, 20004, 24996, 25000, 25004,
     69994, 69996, 70000, 70004, 84994, 84996, 85000, 85004}

InitCheck ==
    /\ MainIdle
    /\ categories = <<>>
    /\ result = NoResult
    /\ \/ /\ pc = "conn"
          /\ \E u \in UsedValues, c \in ConnValues : m = ConnSnapshot(u, c)
       \/ /\ pc = "table"
          /\ \E h \in HitValues, x \in HitValues, o \in OpenValues, d \in OpenedValues :
                m = TableSnapshot(h, x, o, d)
       \/ /\ pc = "redo"
          /\ \E t \in RedoVersions, c \in CapValues, f \in FilesValues, s \in SizeValues :
                m = RedoSnapshot(t, c, f, s)
       \/ /\ pc = "coverage"
          /\ \E up \in UptimeValues, w \in WrittenValues, c \in CapacityValues :
                m = CoverageSnapshot(up, w, c)
       \/ /\ pc = "flush"
          /\ \E waits \in WaitValues, writes \in WriteValues :
                m = FlushSnapshot(waits, writes)
       \/ /\ pc = "qcache"
          /\ \E f \in FreeValues, t \in TotalValues, p \in PruneValues, i \in InsertValues :
                m = QCacheSnapshot(f, t, p, i)
       \/ /\ pc \in {"cpu", "trunc", "two", "pct", "mem", "round"}
          /\ m = DefaultSnapshot
       \/ /\ pc = "version"
          /\ \E c \in VersionCases : m = [DefaultSnapshot EXCEPT !.Version = c.text]
       \/ /\ pc = "parse"
          /\ \E o \in ParseInputs : m = ParseSnapshot(o)

EvalConnectionUtilization ==
    /\ pc = "conn"
    /\ result = NoResult
    /\ result' = checkConnectionUtilization(m)
    /\ UNCHANGED <<pc, flags, shellOverall, passed, defers, exitCode, failed, tookDefault,
                   session, queries, m, loaded, categories, rendered, slept>>

EvalTableCacheHitRate ==
    /\ pc = "table"
    /\ result = NoResult
    /\ result' = checkTableCacheHitRate(m)
    /\ UNCHANGED <<pc, flags, shellOverall, passed, defers, exitCode, failed, tookDefault,
                   session, queries, m, loaded, categories, rendered, slept>>

EvalRedoLogCoverage ==
    /\ pc \in {"redo", "coverage"}
    /\ result = NoResult
    /\ result' = checkRedoLogCoverage(m)
    /\ UNCHANGED <<pc, flags, shellOverall, passed, defers, exitCode, failed, tookDefault,
                   session, queries, m, loaded, categories, rendered, slept>>

EvalFlushingLogs ==
    /\ pc = "flush"
    /\ result = NoResult
    /\ result' = checkFlushingLogs(m)
    /\ UNCHANGED <<pc, flags, shellOverall, passed, defers, exitCode, failed, tookDefault,
                   session, queries, m, loaded, categories, rendered, slept>>

EvalQCacheFragmentation ==
    /\ pc = "qcache"
    /\ result = NoResult
    /\ result' = checkQCacheFragmentation(m)
    /\ UNCHANGED <<pc, flags, shellOverall, passed, defers, exitCode, failed, tookDefault,
                   session, queries, m, loaded, categories, rendered, slept>>

\* checkCPU(s) on a host that answers h; the result is kept with its inputs
\* and with the calls made to the host.
EvalCPU ==
    /\ pc = "cpu"
    /\ result = NoResult
    /\ \E s \in SampleValues, h \in CPUInputs :
          /\ result' = [sampleSeconds |-> s, h |-> h, check |-> checkCPU(s, h),
                        events |-> checkCPUEvents(h)]
          /\ slept' = slept + checkCPUSleeps(h)
    /\ UNCHANGED <<pc, flags, shellOverall, passed, defers, exitCode, failed, tookDefault,
                   session, queries, m, loaded, categories, rendered>>

\* checkQueryTruncation when QueryScalar answers q.
EvalQueryTruncation ==
    /\ pc = "trunc"
    /\ result = NoResult
    /\ \E q \in TruncAnswers :
          result' = [q |-> q, check |-> checkQueryTruncation(q)]
    /\ queries' = Append(queries, TruncationQuery)
    /\ UNCHANGED <<pc, flags, shellOverall, passed, defers, exitCode, failed, tookDefault,
                   session, m, loaded, categories, rendered, slept>>

EvalTwoLevel ==
    /\ pc = "two"
    /\ result = NoResult
    /\ \E name \in TwoLevelNames, n \in PercentValues :
          result' = [name |-> name, n |-> n, check |-> TwoLevelCheck(name, n)]
    /\ UNCHANGED <<pc, flags, shellOverall, passed, defers, exitCode, failed, tookDefault,
                   session, queries, m, loaded, categories, rendered, slept>>

\* pct(n, d), and the three checks that report 100 - n * 100 / d.
EvalPct ==
    /\ pc = "pct"
    /\ result = NoResult
    /\ \E n \in NumeratorValues, d \in DenominatorValues :
          result' =
              [n |-> n, d |-> d, p |-> pct(F(n), F(d)),
               thread |-> checkThreadCacheHitRate(
                              WithCounters(<<"Threads_created", "Connections">>, <<n, d>>)),
               myisam |-> checkMyISAMCacheHitRate(
                              WithCounters(<<"Key_reads", "Key_read_requests">>, <<n, d>>)),
               keywrite |-> checkMyISAMKeyWriteRatio(
                              WithCounters(<<"Key_writes", "Key_write_requests">>, <<n, d>>))]
    /\ UNCHANGED <<pc, flags, shellOverall, passed, defers, exitCode, failed, tookDefault,
                   session, queries, m, loaded, categories, rendered, slept>>

\* statusFloat and varFloat on the same text.
EvalParse ==
    /\ pc = "parse"
    /\ result = NoResult
    /\ result' = [status |-> statusFloat(m, "Uptime"),
                  var |-> varFloat(m, "max_connections")]
    /\ UNCHANGED <<pc, flags, shellOverall, passed, defers, exitCode, failed, tookDefault,
                   session, queries, m, loaded, categories, rendered, slept>>

\* checkMemory on a host whose /proc/meminfo is mi.
EvalMemory ==
    /\ pc = "mem"
    /\ result = NoResult
    /\ \E mi \in MemInputs : result' = [mi |-> mi, check |-> checkMemory(mi)]
    /\ UNCHANGED <<pc, flags, shellOverall, passed, defers, exitCode, failed, tookDefault,
                   session, queries, m, loaded, categories, rendered, slept>>

\* m.VersionAtLeast(major, minor, patch)
EvalVersion ==
    /\ pc = "version"
    /\ result = NoResult
    /\ \E t \in VersionTargets :
          result' = [target |-> t, atLeast |-> VersionAtLeast(m, t[1], t[2], t[3])]
    /\ UNCHANGED <<pc, flags, shellOverall, passed, defers, exitCode, failed, tookDefault,
                   session, queries, m, loaded, categories, rendered, slept>>

\* Three checks on a ratio of n / 1000 percent.
EvalRound ==
    /\ pc = "round"
    /\ result = NoResult
    /\ \E n \in RoundNumerators :
          result' =
              [n |-> n,
               conn |-> checkConnectionUtilization(
                            ConnSnapshot(n, <<100000>>)),
               flush |-> checkFlushingLogs(FlushSnapshot(n, <<100000>>)),
               temp |-> checkTempDiskData(
                            WithCounters(<<"Created_tmp_disk_tables", "Created_tmp_tables">>,
                                         <<n, 100000>>))]
    /\ UNCHANGED <<pc, flags, shellOverall, passed, defers, exitCode, failed, tookDefault,
                   session, queries, m, loaded, categories, rendered, slept>>

NextCheck ==
    \/ EvalVersion
    \/ EvalRound
    \/ EvalParse
    \/ EvalMemory
    \/ EvalConnectionUtilization
    \/ EvalTableCacheHitRate
    \/ EvalRedoLogCoverage
    \/ EvalFlushingLogs
    \/ EvalQCacheFragmentation
    \/ EvalCPU
    \/ EvalQueryTruncation
    \/ EvalTwoLevel
    \/ EvalPct

SpecCheck == InitCheck /\ [][NextCheck]_vars

-----------------------------------------------------------------------------
(* What each check reads from the snapshot                                 *)

\* The ratio checks: the keys of the numerator, and the keys whose sum is
\* the denominator.
Ratio(num, den) == [num |-> num, den |-> den]

Formula ==
    [name \in {"Connection Utilization", "Open Files Utilization",
               "MyISAM Cache Hit Rate", "MyISAM Key Write Ratio",
               "InnoDB Cache Hit Rate", "InnoDB Dirty Pages Ratio",
               "Thread Cache Hit Rate", "Thread Cache Ratio",
               "Table Def Cache Hit Rate", "Table Locking Efficiency",
               "Sort Merge Passes Ratio", "Temporary Disk Data", "Flushing Logs"} |->
        CASE name = "Connection Utilization" ->
                 Ratio({"Max_used_connections"}, <<"max_connections">>)
          [] name = "Open Files Utilization" ->
                 Ratio({"Open_files"}, <<"open_files_limit">>)
          [] name = "MyISAM Cache Hit Rate" ->
                 Ratio({"Key_reads"}, <<"Key_read_requests">>)
          [] name = "MyISAM Key Write Ratio" ->
                 Ratio({"Key_writes"}, <<"Key_write_requests">>)
          [] name = "InnoDB Cache Hit Rate" ->
                 Ratio({"Innodb_buffer_pool_read_requests", "Innodb_buffer_pool_reads"},
                       <<"Innodb_buffer_pool_read_requests">>)
          [] name = "InnoDB Dirty Pages Ratio" ->
                 Ratio({"Innodb_buffer_pool_pages_dirty"},
                       <<"Innodb_buffer_pool_pages_total">>)
          [] name = "Thread Cache Hit Rate" ->
                 Ratio({"Threads_created"}, <<"Connections">>)
          [] name = "Thread Cache Ratio" ->
                 Ratio({"Threads_cached"}, <<"Threads_created">>)
          [] name = "Table Def Cache Hit Rate" ->
                 Ratio({"Open_table_definitions"}, <<"Opened_table_definitions">>)
          [] name = "Table Locking Efficiency" ->
                 Ratio({"Table_locks_immediate"},
                       <<"Table_locks_immediate", "Table_locks_waited">>)
          [] name = "Sort Merge Passes Ratio" ->
                 Ratio({"Sort_merge_passes"}, <<"Sort_scan", "Sort_range">>)
          [] name = "Temporary Disk Data" ->
                 Ratio({"Created_tmp_disk_tables"}, <<"Created_tmp_tables">>)
          [] OTHER ->
                 Ratio({"Innodb_log_waits"}, <<"Innodb_log_writes">>)]

\* Table Cache Hit Rate has two formulas; the one a snapshot selects.
TableFormula(mm) ==
    IF "Table_open_cache_hits" \in DOMAIN mm.Status
    THEN Ratio({"Table_open_cache_hits"},
               <<"Table_open_cache_hits", "Table_open_cache_misses">>)
    ELSE Ratio({"Open_tables"}, <<"Opened_tables">>)

RatioChecks == DOMAIN Formula \cup {"Table Cache Hit Rate"}

FormulaFor(name, mm) ==
    IF name = "Table Cache Hit Rate" THEN TableFormula(mm) ELSE Formula[name]

Range(s) == {s[i] : i \in 1..Len(s)}

\* Every key a check reads; "Version" stands for SELECT VERSION().
Reads(name) ==
    IF name \in DOMAIN Formula THEN Formula[name].num \cup Range(Formula[name].den)
    ELSE CASE name = "Table Cache Hit Rate" ->
                  {"Table_open_cache_hits", "Table_open_cache_misses",
                   "Open_tables", "Opened_tables"}
           [] name = "Disk Space Usage" -> {"datadir"}
           [] name = "InnoDB Log File Size" ->
                  {"Uptime", "Innodb_os_log_written", "innodb_redo_log_capacity",
                   "innodb_log_files_in_group", "innodb_log_file_size", "Version"}
           [] name = "QCache Fragmentation" ->
                  {"Qcache_free_blocks", "Qcache_total_blocks",
                   "Qcache_lowmem_prunes", "Qcache_inserts"}
           [] OTHER -> {}

Present(mm, k) == k \in DOMAIN mm.Status \/ k \in DOMAIN mm.Vars

KeyFloat(mm, k) == IF k \in DOMAIN ServerVars THEN varFloat(mm, k) ELSE statusFloat(mm, k)

\* The denominator of a ratio: the sum of its keys, absent keys counting 0.
Denominator(mm, f) ==
    IF Len(f.den) = 1 THEN KeyFloat(mm, f.den[1])
    ELSE FAdd(KeyFloat(mm, f.den[1]), KeyFloat(mm, f.den[2]))

\* The results of the checks that take the snapshot, on a host whose data
\* directory can be read.
SnapshotChecks(mm) ==
    <<checkDiskSpace(mm, GoodFS), checkConnectionUtilization(mm), checkOpenFiles(mm)>>
        \o RunEngineChecks(mm) \o RunCacheChecks(mm)
        \o SubSeq(RunQueryChecks(mm, [err |-> TRUE, val |-> <<>>]), 1, 4)

\* The snapshots that differ from mm in one key: the key removed, or set to
\* another value.
Variants(mm) ==
    {[key |-> k, mm |-> [mm EXCEPT !.Status = RemoveKey(@, k)]] :
         k \in DOMAIN HealthyStatus}
        \cup {[key |-> k, mm |-> [mm EXCEPT !.Status = SetKey(@, k, Str(7))]] :
                  k \in DOMAIN HealthyStatus}
        \cup {[key |-> k, mm |-> [mm EXCEPT !.Vars = RemoveKey(@, k)]] :
                  k \in DOMAIN ServerVars}
        \cup {[key |-> k, mm |-> [mm EXCEPT !.Vars = SetKey(@, k, Str(7))]] :
                  k \in DOMAIN ServerVars}
        \cup {[key |-> "Version", mm |-> [mm EXCEPT !.Version = v]] : v \in Versions}

AllChecks(cats) == UNION {Range(cats[i].Checks) : i \in 1..Len(cats)}

NormalExit == pc = "exited" /\ failed = "none" /\ ~flags.showVersion

-----------------------------------------------------------------------------
(* Properties of the run of main()                                         *)

\* C1: on every run of main() that gets past argument parsing, the exit code
\* is 0 exactly when OverallLevel(categories) is OK, 1 exactly when it is
\* WARN, and 2 exactly when it is CRIT or when config parsing, db.Connect or
\* LoadAll failed; no other exit code is reachable and the default branch of
\* the exit switch is never taken.
C1_ExitCode ==
    (pc = "exited" /\ ~flags.showVersion) =>
        /\ exitCode \in {0, 1, 2}
        /\ ~tookDefault
        /\ (exitCode = 0) <=> (failed = "none" /\ OverallLevel(categories) = LevelOK)
        /\ (exitCode = 1) <=> (failed = "none" /\ OverallLevel(categories) = LevelWarn)
        /\ (exitCode = 2) <=> (failed # "none" \/ OverallLevel(categories) = LevelCrit)

\* A run that ends with exit code 2 because a check is CRIT, although other
\* checks are N/A.
C1_Witness ==
    /\ NormalExit
    /\ exitCode = 2
    /\ \E ch \in AllChecks(categories) : ch.Level = LevelSkip
    /\ \E ch \in AllChecks(categories) : ch.Level = LevelCrit

\* C4: for every ratio check, if a counter or variable of its formula
\* (numerator or denominator) is absent from the snapshot, or the
\* denominator is zero, the level of the check is SKIP.
C4_AbsentOrZeroIsSkip ==
    NormalExit =>
        \A ch \in AllChecks(categories) :
            ch.Name \in RatioChecks =>
                With(FormulaFor(ch.Name, loaded), LAMBDA f :
                    (\/ \E k \in f.num \cup Range(f.den) : ~Present(loaded, k)
                     \/ FEq(Denominator(loaded, f), F(0)))
                        => ch.Level = LevelSkip)

\* C5: if config parsing, db.Connect or LoadAll fails, the run ends with exit
\* code 2 before any check is evaluated and before Render is called: no
\* category, no check result, no sampling sleep, no live query.
C5_FatalAborts ==
    failed # "none" =>
        /\ pc = "exited"
        /\ exitCode = 2
        /\ categories = <<>>
        /\ ~rendered
        /\ slept = 0
        /\ TruncationQuery \notin Range(queries)

\* LoadAll failed after SHOW GLOBAL STATUS had been read: a partial snapshot
\* exists, and nothing was made of it.
C5_Witness ==
    /\ pc = "exited"
    /\ failed = "load"
    /\ m.Status # EmptyMap
    /\ categories = <<>>

\* C6: the session opened by db.Connect is closed before the process
\* terminates, on every exit path of main().
C6_SessionReleased ==
    (pc = "exited" /\ session # "none") => session = "closed"

\* C7: a check returns the same result on two snapshots that agree on every
\* key it reads; and a run whose snapshot lacks Connections (Threads_created
\* present) reports Thread Cache Hit Rate as N/A, every other snapshot check
\* as it would be with Connections present, all 20 results, and exits with
\* a code of the exit switch.
C7_Isolation ==
    /\ pc = "system" =>
           With(SnapshotChecks(m), LAMBDA a :
               \A v \in Variants(m) :
                   With(SnapshotChecks(v.mm), LAMBDA b :
                       \A i \in 1..Len(a) :
                           v.key \notin Reads(a[i].Name) => a[i] = b[i]))
    /\ (/\ NormalExit
        /\ "Connections" \notin DOMAIN loaded.Status
        /\ "Threads_created" \in DOMAIN loaded.Status) =>
           With([loaded EXCEPT !.Status = SetKey(@, "Connections", Str(100))],
                LAMBDA full :
               /\ Len(categories) = 4
               /\ \A i \in 1..4 : Len(categories[i].Checks) = 5
               /\ categories[3].Checks[1].Name = "Thread Cache Hit Rate"
               /\ categories[3].Checks[1].Level = LevelSkip
               /\ categories[3].Checks[1].Value = NA
               /\ SubSeq(categories[1].Checks, 4, 5)
                      = <<checkConnectionUtilization(full), checkOpenFiles(full)>>
               /\ categories[2].Checks = RunEngineChecks(full)
               /\ Tail(categories[3].Checks) = Tail(RunCacheChecks(full))
               /\ SubSeq(categories[4].Checks, 1, 4)
                      = SubSeq(RunQueryChecks(full, [err |-> TRUE, val |-> <<>>]), 1, 4)
               /\ exitCode \in {0, 1, 2}
               /\ ~tookDefault)

\* A healthy server whose status lacks Connections: Thread Cache Hit Rate is
\* N/A, Thread Cache Ratio is rated, and the run exits 0.
C7_Witness ==
    /\ NormalExit
    /\ "Connections" \notin DOMAIN loaded.Status
    /\ "Threads_created" \in DOMAIN loaded.Status
    /\ categories[3].Checks[1].Level = LevelSkip
    /\ categories[3].Checks[2].Level = LevelOK
    /\ exitCode = 0

-----------------------------------------------------------------------------
(* Properties of the aggregation                                           *)

\* The largest member of a set of levels under OK < WARN < CRIT, OK when the
\* set is empty.
MaxLevel(S) == IF S = {} THEN LevelOK ELSE CHOOSE x \in S : \A y \in S : y <= x

RatedLevels(c) == {c.Checks[j].Level : j \in 1..Len(c.Checks)} \ {LevelSkip}

\* C2: WorstLevel is the maximum level among the checks of the category that
\* are not SKIP, OK when there is none; it is never SKIP; OverallLevel is the
\* maximum of the categories' WorstLevel, OK for an empty list.
C2_WorstIsMax ==
    pc = "agg" =>
        With([i \in 1..Len(categories) |-> WorstLevel(categories[i])], LAMBDA worst :
        With(OverallLevel(categories), LAMBDA overall :
            /\ \A i \in 1..Len(categories) :
                  /\ worst[i] = MaxLevel(RatedLevels(categories[i]))
                  /\ worst[i] # LevelSkip
            /\ overall = MaxLevel(Range(worst))
            /\ overall
                   = MaxLevel(UNION {RatedLevels(categories[i]) : i \in 1..Len(categories)})))

\* Two categories, the first <<SKIP, WARN>> and the second <<SKIP>>: the
\* overall level is WARN.
C2_Witness ==
    /\ pc = "agg"
    /\ Len(categories) = 2
    /\ Len(categories[1].Checks) = 2
    /\ categories[1].Checks[1].Level = LevelSkip
    /\ categories[1].Checks[2].Level = LevelWarn
    /\ Len(categories[2].Checks) = 1
    /\ categories[2].Checks[1].Level = LevelSkip
    /\ OverallLevel(categories) = LevelWarn

Last(s) == s[Len(s)]

\* The check a step appends to category i, if it appends one.
Appended(i) ==
    /\ Len(categories') = Len(categories)
    /\ Len(categories'[i].Checks) = Len(categories[i].Checks) + 1

\* C3: adding a check never lowers OverallLevel, and adding a check whose
\* level is CRIT makes OverallLevel CRIT whatever the other levels are.
C3_Monotonic ==
    [][pc = "agg" =>
          \A i \in 1..Len(categories) :
              Appended(i) =>
                  With(OverallLevel(categories'), LAMBDA after :
                      /\ after >= OverallLevel(categories)
                      /\ Last(categories'[i].Checks).Level = LevelCrit
                             => after = LevelCrit)]_vars

\* A CRIT check has been added after a SKIP one in a category that follows
\* a category rated WARN.
C3_Witness ==
    /\ pc = "agg"
    /\ Len(categories) = 2
    /\ Len(categories[1].Checks) = 1
    /\ categories[1].Checks[1].Level = LevelWarn
    /\ Len(categories[2].Checks) = 2
    /\ categories[2].Checks[1].Level = LevelSkip
    /\ categories[2].Checks[2].Level = LevelCrit
    /\ OverallLevel(categories) = LevelCrit

-----------------------------------------------------------------------------
(* Properties of single checks                                             *)

Checked(tag) == pc = tag /\ result # NoResult

\* The level the thresholds give to u * 100 / c, in integers.
UtilizationLevel(u, c) ==
    IF u * 100 < 70 * c THEN LevelOK
    ELSE IF u * 100 < 85 * c THEN LevelWarn
    ELSE LevelCrit

\* C8: with max_connections nonzero, checkConnectionUtilization rates
\* v = Max_used_connections * 100 / max_connections OK iff v < 70, WARN iff
\* 70 <= v < 85, CRIT iff v >= 85; 70 of 100 is WARN, 85 of 100 is CRIT.
C8_ConnectionThresholds ==
    Checked("conn") =>
        /\ \A u \in UsedValues, c \in ConnValues :
              (c # <<>> /\ c # <<0>> /\ m = ConnSnapshot(u, c)) =>
                  /\ result.Level = UtilizationLevel(u, c[1])
                  /\ result.Value = fmtPct(FDiv(F(u * 100), F(c[1])))
        /\ m = ConnSnapshot(70, <<100>>) => result.Level = LevelWarn
        /\ m = ConnSnapshot(85, <<100>>) => result.Level = LevelCrit
        /\ m = ConnSnapshot(69, <<100>>) => result.Level = LevelOK

\* maxUsed = 70, maxConnections = 100: "70.00%", WARN.
C8_Witness ==
    /\ Checked("conn")
    /\ m = ConnSnapshot(70, <<100>>)
    /\ result.Value = <<"7", "0", ".", "0", "0", "%">>
    /\ result.Level = LevelWarn

\* C9: checkTableCacheHitRate uses hits / (hits + misses) exactly when both
\* Table_open_cache_hits and Table_open_cache_misses are present, and
\* Open_tables / Opened_tables exactly when they are not both present; with
\* hits = 90, misses = 10, open = 5, opened = 1000 the value is 90%.
C9_TableCacheFormulation ==
    Checked("table") =>
        /\ result = IF /\ "Table_open_cache_hits" \in DOMAIN m.Status
                       /\ "Table_open_cache_misses" \in DOMAIN m.Status
                    THEN tableCacheByHits(m, checkTableCacheHitRate_c)
                    ELSE tableCacheByOpened(m, checkTableCacheHitRate_c)
        /\ m = TableSnapshot(<<90>>, <<10>>, <<5>>, <<1000>>)
               => result.Value = <<"9", "0", ".", "0", "0", "%">>

Opt(o) == IF o = <<>> THEN 0 ELSE o[1]

\* Version t is at least 8.0.30.
AtLeast8030(t) ==
    \/ t[1] > 8
    \/ t[1] = 8 /\ t[2] > 0
    \/ t[1] = 8 /\ t[2] = 0 /\ t[3] >= 30

\* The capacity C10 states for a version and the three variables.
StatedCapacity(t, cap, files, size) ==
    IF AtLeast8030(t) /\ cap # <<>> /\ cap # <<0>> THEN cap[1]
    ELSE Opt(files) * Opt(size)

\* C10: checkRedoLogCoverage takes the capacity from innodb_redo_log_capacity
\* when the version is at least 8.0.30 and the variable is present and
\* nonzero, otherwise innodb_log_files_in_group * innodb_log_file_size; when
\* the capacity is zero the check is N/A.  (On RedoSnapshot the check reports
\* capacity / 1000 minutes.)
C10_RedoCapacitySource ==
    Checked("redo") =>
        \A t \in RedoVersions, cap \in CapValues, files \in FilesValues,
           size \in SizeValues :
            m = RedoSnapshot(t, cap, files, size) =>
                With(StatedCapacity(t, cap, files, size), LAMBDA capacity :
                    IF capacity = 0
                    THEN result.Level = LevelSkip /\ result.Value = NA
                    ELSE /\ result.Value = NatToStr(capacity \div 1000) \o <<"m", "i", "n">>
                         /\ result.Level = IF capacity \div 1000 >= 45 THEN LevelOK
                                           ELSE LevelWarn)

\* Version 8.0.29 with innodb_redo_log_capacity = 60000 present: the check
\* reports the 30 minutes of 2 files of 15000 bytes.
C10_Witness ==
    /\ Checked("redo")
    /\ m = RedoSnapshot(<<8, 0, 29, <<>>>>, <<60000>>, <<2>>, <<15000>>)
    /\ result.Value = <<"3", "0", "m", "i", "n">>
    /\ result.Level = LevelWarn

\* C11: checkRedoLogCoverage is N/A when Uptime is absent or
\* Innodb_os_log_written is absent or zero; otherwise, with capacity c > 0,
\* minutes = (Uptime / 60) * c / Innodb_os_log_written, OK iff minutes >= 45
\* and WARN otherwise, never CRIT; 3600 s, 1000 written, capacity 60000 give
\* 3600 minutes, OK.
C11_RedoMinutes ==
    Checked("coverage") =>
        /\ \A up \in UptimeValues, w \in WrittenValues, c \in CapacityValues :
              m = CoverageSnapshot(up, w, c) =>
                  IF up = <<>> \/ w = <<>> \/ w = <<0>>
                  THEN result.Level = LevelSkip /\ result.Value = NA
                  ELSE /\ result.Level = IF up[1] * c >= 45 * 60 * w[1] THEN LevelOK
                                         ELSE LevelWarn
                       /\ result.Value = fmtMin(FDiv(F(up[1] * c), F(60 * w[1])))
        /\ result.Level # LevelCrit
        /\ m = CoverageSnapshot(<<3600>>, <<1000>>, 60000)
               => /\ result.Value = <<"3", "6", "0", "0", "m", "i", "n">>
                  /\ result.Level = LevelOK

\* 2700 s of uptime and as many bytes written as the capacity: exactly 45
\* minutes, OK.
C11_Witness ==
    /\ Checked("coverage")
    /\ m = CoverageSnapshot(<<2700>>, <<1000>>, 1000)
    /\ result.Value = <<"4", "5", "m", "i", "n">>
    /\ result.Level = LevelOK

\* C12: with Innodb_log_writes nonzero, checkFlushingLogs rates
\* v = Innodb_log_waits * 100 / Innodb_log_writes OK iff v < 5, WARN iff
\* 5 <= v <= 20, CRIT iff v > 20; it is N/A when Innodb_log_writes is zero or
\* absent.
C12_FlushingThresholds ==
    Checked("flush") =>
        /\ \A waits \in WaitValues, writes \in WriteValues :
              m = FlushSnapshot(waits, writes) =>
                  IF writes = <<>> \/ writes = <<0>>
                  THEN result.Level = LevelSkip /\ result.Value = NA
                  ELSE result.Level =
                           IF waits * 100 < 5 * writes[1] THEN LevelOK
                           ELSE IF waits * 100 <= 20 * writes[1] THEN LevelWarn
                           ELSE LevelCrit
        /\ m = FlushSnapshot(5, <<100>>) => result.Level = LevelWarn
        /\ m = FlushSnapshot(20, <<100>>) => result.Level = LevelWarn

\* 20 waits in 100 writes: "20.00%", WARN.
C12_Witness ==
    /\ Checked("flush")
    /\ m = FlushSnapshot(20, <<100>>)
    /\ result.Value = <<"2", "0", ".", "0", "0", "%">>
    /\ result.Level = LevelWarn

\* usage = ((t2 - t1) / clockTicksPerSecond / sampleSeconds) * 100 / cpuCount
CPUUsage(s, h) ==
    FDiv(FMul(FDiv(FDiv(F(h.t2 - h.t1), F(sysconfCLKTCK)), F(s)), F(100)), F(h.cpus))

\* C13: when both readings succeed, checkCPU reports usage and rates it OK
\* iff usage <= 80, WARN iff 80 < usage <= 100, CRIT iff usage > 100.
C13_CPUThresholds ==
    (Checked("cpu") /\ result.h.pidFound /\ result.h.t1ok /\ result.h.t2ok) =>
        With(CPUUsage(result.sampleSeconds, result.h), LAMBDA usage :
            /\ result.check.Level = LevelOK <=> FLe(usage, F(80))
            /\ result.check.Level = LevelWarn <=> (FGt(usage, F(80)) /\ FLe(usage, F(100)))
            /\ result.check.Level = LevelCrit <=> FGt(usage, F(100)))

Sleeps(ev) == {i \in 1..Len(ev) : ev[i] = "time.Sleep"}

\* C14: checkCPU sleeps only after the process was found and the first
\* reading succeeded; otherwise the result is N/A and no sleep occurs; a
\* sleep is the only one, between the first and the second reading.
C14_SleepPlacement ==
    Checked("cpu") =>
        With(result.events, LAMBDA ev :
            /\ (~result.h.pidFound \/ ~result.h.t1ok) =>
                   /\ result.check.Level = LevelSkip
                   /\ result.check.Value = NA
                   /\ Sleeps(ev) = {}
                   /\ slept = 0
            /\ (result.h.pidFound /\ result.h.t1ok) => Cardinality(Sleeps(ev)) = 1
            /\ slept = Cardinality(Sleeps(ev))
            /\ \A i \in Sleeps(ev) :
                  /\ SubSeq(ev, 1, i - 1) = <<"findMysqldPid", "readProcCPUTicks">>
                  /\ i < Len(ev)
                  /\ ev[i + 1] = "readProcCPUTicks"
                  /\ Cardinality({j \in 1..Len(ev) : ev[j] = "readProcCPUTicks"}) = 2)

\* The process was found and read once, the sleep took place, and the
\* second reading failed.
C14_Witness ==
    /\ Checked("cpu")
    /\ ~result.h.t2ok
    /\ slept = 1
    /\ result.check.Level = LevelSkip

\* C15: checkQCacheFragmentation is N/A when one of its four counters is
\* absent or total blocks is zero; otherwise OK iff frag < 10 and
\* (Qcache_inserts is zero or delRate < 20), WARN otherwise.
C15_QCache ==
    Checked("qcache") =>
        \A f \in FreeValues, t \in TotalValues, p \in PruneValues, i \in InsertValues :
            m = QCacheSnapshot(f, t, p, i) =>
                IF f = <<>> \/ t = <<>> \/ p = <<>> \/ i = <<>> \/ t = <<0>>
                THEN result.Level = LevelSkip /\ result.Value = NA
                ELSE result.Level =
                         IF /\ f[1] * 100 < 10 * t[1]
                            /\ (i[1] = 0 \/ p[1] * 100 < 20 * i[1])
                         THEN LevelOK ELSE LevelWarn

\* 9 free blocks of 100, 50 prunes and no insert: the delete rate is
\* undefined and the check is OK.
C15_Witness ==
    /\ Checked("qcache")
    /\ m = QCacheSnapshot(<<9>>, <<100>>, <<50>>, <<0>>)
    /\ result.Level = LevelOK

\* s contains sub as a contiguous subsequence.
Contains(s, sub) ==
    \E i \in 1..(Len(s) - Len(sub) + 1) : SubSeq(s, i, i + Len(sub) - 1) = sub

\* C16: checkQueryTruncation is OK with value FALSE when the count is 0,
\* WARN with a value that contains the count when it is > 0, N/A when the
\* query fails, never CRIT; and no other check sends a query.
C16_QueryTruncation ==
    /\ Checked("trunc") =>
           /\ result.q.err => (result.check.Level = LevelSkip /\ result.check.Value = NA)
           /\ \A n \in TruncCounts :
                 result.q = [err |-> FALSE, val |-> Str(n)] =>
                     IF n = 0
                     THEN /\ result.check.Level = LevelOK
                          /\ result.check.Value = <<"F", "A", "L", "S", "E">>
                     ELSE /\ result.check.Level = LevelWarn
                          /\ Contains(result.check.Value, NatToStr(n))
           /\ result.check.Level # LevelCrit
           /\ queries = <<TruncationQuery>>
    /\ pc # "trunc" => queries = <<>>

\* The count query answers 3: WARN, "TRUE (3 truncated)".
C16_Witness ==
    /\ Checked("trunc")
    /\ result.q = [err |-> FALSE, val |-> <<"3">>]
    /\ result.check.Level = LevelWarn
    /\ result.check.Value = <<"T", "R", "U", "E", " ", "(", "3", " ",
                              "t", "r", "u", "n", "c", "a", "t", "e", "d", ")">>

\* The checks that have a CRIT threshold.
ThreeLevelNames == {"CPU Utilization", "Connection Utilization", "Flushing Logs"}

\* The check results held by a harness result r.
Rated3(r) ==
    IF r = NoResult THEN {}
    ELSE IF "check" \in DOMAIN r THEN {r.check}
    ELSE IF "thread" \in DOMAIN r THEN {r.thread, r.myisam, r.keywrite}
    ELSE IF "conn" \in DOMAIN r THEN {r.conn, r.flush, r.temp}
    ELSE IF "Level" \in DOMAIN r THEN {r}
    ELSE {}

\* The documented comparison under which a two-level check is OK.
TwoLevelOK(name, v) ==
    CASE name = "Thread Cache Hit Rate" -> v > 50
      [] name = "Thread Cache Ratio" -> v > 10
      [] name = "MyISAM Cache Hit Rate" -> v > 95
      [] name = "MyISAM Key Write Ratio" -> v >= 90
      [] name = "InnoDB Cache Hit Rate" -> v > 90
      [] name = "Table Cache Hit Rate" -> v >= 90
      [] name = "Table Def Cache Hit Rate" -> v > 75
      [] name = "Table Locking Efficiency" -> v > 95
      [] name = "Sort Merge Passes Ratio" -> v < 10
      [] name = "Temporary Disk Data" -> v <= 25
      [] name = "Memory Utilization" -> v < 80
      [] name = "Disk Space Usage" -> v < 80
      [] name = "Open Files Utilization" -> v < 85
      [] OTHER -> v < 75

\* C17: each two-level check whose value v is defined is OK exactly under
\* its documented comparison and WARN otherwise, never CRIT.
C17_TwoLevel ==
    /\ Checked("two") =>
           /\ result.check.Name = result.name
           /\ result.check.Value # NA
           /\ result.check.Level = IF TwoLevelOK(result.name, result.n) THEN LevelOK
                                   ELSE LevelWarn
           /\ result.check.Level # LevelCrit
    /\ \A ch \in Rated3(result) : ch.Level = LevelCrit => ch.Name \in ThreeLevelNames

\* created = 40, connections = 100: Thread Cache Hit Rate 60%, OK.
C17_Witness ==
    /\ Checked("two")
    /\ result.name = "Thread Cache Hit Rate"
    /\ result.n = 60
    /\ result.check.Value = <<"6", "0", ".", "0", "0", "%">>
    /\ result.check.Level = LevelOK

\* A complement-style result: 100 - p when p is defined, N/A when it is not.
IsComplement(ch, p) ==
    IF p.ok THEN ch.Value = fmtPct(FSub(F(100), p.v)) /\ ch.Level # LevelSkip
    ELSE ch.Value = NA /\ ch.Level = LevelSkip

\* C20: pct(n, d) is undefined exactly when d is 0 and is n * 100 / d
\* otherwise, so pct(0, d) = 0 for d > 0; Thread Cache Hit Rate, MyISAM Cache
\* Hit Rate and the key write efficiency are 100 - pct(n, d) when it is
\* defined and N/A when it is not.
C20_Pct ==
    Checked("pct") =>
        /\ result.p.ok <=> result.d # 0
        /\ result.d # 0 => result.p.v = FDiv(F(result.n * 100), F(result.d))
        /\ (result.n = 0 /\ result.d > 0) => result.p.v = F(0)
        /\ IsComplement(result.thread, result.p)
        /\ IsComplement(result.myisam, result.p)
        /\ IF result.p.ok
           THEN /\ result.keywrite.Level # LevelSkip
                /\ result.keywrite.Value =
                       Fmt2(result.p.v) \o <<"%", " ", "(", "e", "f", "f", ":", " ">>
                           \o Fmt2(FSub(F(100), result.p.v)) \o <<"%", ")">>
           ELSE result.keywrite.Value = NA /\ result.keywrite.Level = LevelSkip

\* 40 of 100: pct is 40 and Thread Cache Hit Rate reports "60.00%".
C20_Witness ==
    /\ Checked("pct")
    /\ result.n = 40
    /\ result.d = 100
    /\ result.p = [v |-> F(40), ok |-> TRUE]
    /\ result.thread.Value = <<"6", "0", ".", "0", "0", "%">>

------------------------------------------------------------------------------
(* The snapshot and the shape of the report                                *)

AfterLoad == pc \in {"system", "engine", "cache", "query", "render", "exit"} \/ NormalExit

\* C18: the snapshot is read-only after LoadAll: no Run*Checks function,
\* nor Render or OverallLevel, changes m.Status, m.Vars or m.Version; they
\* are at process exit what they were when LoadAll returned.
C18_SnapshotReadOnly ==
    AfterLoad =>
        /\ m.Status = loaded.Status
        /\ m.Vars = loaded.Vars
        /\ m.Version = loaded.Version

\* A run that rated a loaded, non-empty snapshot, rendered and exited.
C18_Witness ==
    /\ NormalExit
    /\ rendered
    /\ Len(categories) = 4
    /\ loaded.Status = StressedStatus
    /\ m = loaded

CategoryNames == <<"System", "MyISAM / InnoDB", "Memory", "Queries / Logs">>

CheckNames ==
    << <<"CPU Utilization", "Disk Space Usage", "Memory Utilization",
         "Connection Utilization", "Open Files Utilization">>,
       <<"MyISAM Cache Hit Rate", "MyISAM Key Write Ratio", "InnoDB Cache Hit Rate",
         "InnoDB Log File Size", "InnoDB Dirty Pages Ratio">>,
       <<"Thread Cache Hit Rate", "Thread Cache Ratio", "Table Cache Hit Rate",
         "Table Def Cache Hit Rate", "Table Locking Efficiency">>,
       <<"Sort Merge Passes Ratio", "Temporary Disk Data", "Flushing Logs",
         "QCache Fragmentation", "Query Truncation Status">> >>

\* C19: every run that loads the snapshot produces exactly four categories
\* in the order System, MyISAM / InnoDB, Memory, Queries / Logs, each with
\* exactly five results in definition order, 20 pairwise distinct names,
\* whatever keys are missing and whichever checks are N/A.
C19_ReportShape ==
    /\ AfterLoad =>
           /\ Len(categories) <= 4
           /\ \A i \in 1..Len(categories) :
                 /\ categories[i].Name = CategoryNames[i]
                 /\ Len(categories[i].Checks) = 5
                 /\ \A j \in 1..5 : categories[i].Checks[j].Name = CheckNames[i][j]
    /\ (pc \in {"render", "exit"} \/ NormalExit) =>
           /\ Len(categories) = 4
           /\ Cardinality({categories[p[1]].Checks[p[2]].Name :
                               p \in (1..4) \X (1..5)}) = 20

\* A finished run in which at least ten of the twenty results are N/A.
C19_Witness ==
    /\ NormalExit
    /\ Len(categories) = 4
    /\ Cardinality({p \in (1..4) \X (1..5) :
                        categories[p[1]].Checks[p[2]].Level = LevelSkip}) >= 10

-----------------------------------------------------------------------------
(* Parsing, rounding and host readings                                     *)

\* t is a decimal integer or a decimal: digits, or digits "." digits.
IsDecimalText(t) ==
    With(DigitRun(t), LAMBDA k :
        /\ k > 0
        /\ \/ k = Len(t)
           \/ /\ t[k + 1] = "."
              /\ k + 1 < Len(t)
              /\ \A j \in (k + 2)..Len(t) : IsDigit(t[j]))

\* The number a decimal text denotes.
DecimalValue(t) ==
    With(DigitRun(t), LAMBDA k :
    With(IF k = Len(t) THEN <<>> ELSE SubSeq(t, k + 2, Len(t)), LAMBDA frac :
        Norm(DigitsVal(SubSeq(t, 1, k)) * Pow10(Len(frac)) + DigitsVal(frac),
             Pow10(Len(frac)))))

\* The number the documented parsing gives to an optional text.
ParseNumber(o) ==
    IF o # <<>> /\ IsDecimalText(o[1]) THEN DecimalValue(o[1]) ELSE F(0)

\* C21: the number parsing used by the checks returns the numeric value of
\* a decimal integer or decimal string and 0 for every other string and for
\* an absent key: signed values, exponent forms and the words inf / nan
\* included.
C21_ParseNumber ==
    Checked("parse") =>
        \A o \in ParseInputs :
            m = ParseSnapshot(o) =>
                /\ result.status = ParseNumber(o)
                /\ result.var = ParseNumber(o)

\* The level of a three-level check whose value is n / 1000 percent.
Level3(n, warnAt, critAt, inclusive) ==
    IF inclusive
    THEN (IF n < warnAt * 1000 THEN LevelOK
          ELSE IF n <= critAt * 1000 THEN LevelWarn ELSE LevelCrit)
    ELSE (IF n < warnAt * 1000 THEN LevelOK
          ELSE IF n < critAt * 1000 THEN LevelWarn ELSE LevelCrit)

\* n / 1000 percent as fmtPct shows it, for n off the rounding ties.
Shown(h) ==
    NatToStr(h \div 100) \o <<".">>
        \o <<Digits[((h % 100) \div 10) + 1], Digits[(h % 10) + 1]>> \o <<"%">>

\* C22: threshold comparisons use the unrounded value and rounding to two
\* decimals happens only in the value string: Connection Utilization 69.996
\* is shown as 70.00% and is OK; the level never depends on the string.
C22_UnroundedComparison ==
    Checked("round") =>
        /\ result.conn.Level = Level3(result.n, 70, 85, FALSE)
        /\ result.flush.Level = Level3(result.n, 5, 20, TRUE)
        /\ result.temp.Level = IF result.n <= 25 * 1000 THEN LevelOK ELSE LevelWarn
        /\ \A ch \in {result.conn, result.flush, result.temp} :
              ch.Value = Shown((result.n + 5) \div 10)
        /\ result.n = 69996 =>
               /\ result.conn.Value = <<"7", "0", ".", "0", "0", "%">>
               /\ result.conn.Level = LevelOK
        /\ result.n = 70000 =>
               /\ result.conn.Value = <<"7", "0", ".", "0", "0", "%">>
               /\ result.conn.Level = LevelWarn

\* 69.996 % of the connections used: shown as 70.00%, rated OK.
C22_Witness ==
    /\ Checked("round")
    /\ result.n = 69996
    /\ result.conn.Value = <<"7", "0", ".", "0", "0", "%">>
    /\ result.conn.Level = LevelOK
    /\ result.temp.Level = LevelWarn

\* C23: if /proc/meminfo cannot be read, or lacks the MemTotal line, or
\* lacks the MemAvailable line, checkMemory is N/A.
C23_MemoryUnavailable ==
    (/\ Checked("mem")
     /\ (~result.mi.ok \/ ~result.mi.hasTotal \/ ~result.mi.hasAvail)) =>
        /\ result.check.Level = LevelSkip
        /\ result.check.Value = NA

\* a >= b in the lexicographic order of triples.
LexGE(a, b) ==
    \/ a[1] > b[1]
    \/ a[1] = b[1] /\ a[2] > b[2]
    \/ a[1] = b[1] /\ a[2] = b[2] /\ a[3] >= b[3]

\* C24: VersionAtLeast(major, minor, patch) is true exactly when the triple
\* parsed from the version string, after dropping everything from the first
\* "-" on, is lexicographically at least (major, minor, patch); components
\* that cannot be parsed count as 0, so an empty or non-numeric version is
\* never at least 8.0.30.
C24_VersionAtLeast ==
    Checked("version") =>
        /\ \A c \in VersionCases :
              m.Version = c.text => result.atLeast = LexGE(c.triple, result.target)
        /\ (/\ m.Version \in {<<>>, <<"a", "b", "c">>, <<"-", "l", "o", "g">>}
            /\ result.target = <<8, 0, 30>>) => ~result.atLeast

\* 8.1.0 is at least 8.0.30 although its patch number is smaller.
C24_Witness ==
    /\ Checked("version")
    /\ m.Version = <<"8", ".", "1", ".", "0">>
    /\ result.target = <<8, 0, 30>>
    /\ result.atLeast

\* C27: checkCPU returns a classified level only when the sample duration is
\* positive: for a -sample-seconds value of 0 or less, with the process
\* found and both readings successful, the result is N/A.
C27_NonPositiveSample ==
    (/\ Checked("cpu")
     /\ result.sampleSeconds <= 0
     /\ result.h.pidFound /\ result.h.t1ok /\ result.h.t2ok) =>
        /\ result.check.Level = LevelSkip
        /\ result.check.Value = NA

-----------------------------------------------------------------------------
(* Order of the events of a run                                            *)

\* LoadAll has returned without an error: its three statements were sent
\* over the open session and m is what it loaded.
LoadedOK ==
    /\ failed = "none"
    /\ session = "open"
    /\ Len(queries) >= 3
    /\ SubSeq(queries, 1, 3) = LoadQueries(0)
    /\ m = loaded
    /\ loaded \in Snapshots

EventOrder ==
    /\ queries # <<>> => session = "open"
    /\ categories # <<>> => LoadedOK
    /\ \A i \in 1..Len(categories) : categories[i].Name = CategoryNames[i]
    /\ TruncationQuery \in Range(queries) =>
           /\ LoadedOK
           /\ queries = LoadQueries(0) \o <<TruncationQuery>>
           /\ Len(categories) = 4
    /\ rendered => Len(categories) = 4
    /\ (exitCode # -1 /\ failed = "none" /\ ~flags.showVersion) => rendered

\* A step that evaluates checks or sends a statement is taken with the
\* session open and leaves it open; checks are evaluated one category at a
\* time, after LoadAll; Render comes after the fourth category and exit
\* after Render.
OrderedStep ==
    /\ queries' # queries => (session = "open" /\ session' = "open")
    /\ categories' # categories =>
           /\ LoadedOK
           /\ ~rendered
           /\ exitCode = -1
           /\ Len(categories') = Len(categories) + 1
           /\ SubSeq(categories', 1, Len(categories)) = categories
    /\ rendered' # rendered => (Len(categories) = 4 /\ exitCode = -1 /\ rendered')
    /\ (exitCode' # exitCode /\ failed' = "none" /\ ~flags.showVersion) =>
           (rendered /\ exitCode' = CASE OverallLevel(categories) = LevelOK -> 0
                                      [] OverallLevel(categories) = LevelCrit -> 2
                                      [] OTHER -> 1)

\* C25: in every run Connect succeeds, then LoadAll populates Status, Vars
\* and Version, then the checks are evaluated category by category (System,
\* Engine, Cache, Query), then Render, then OverallLevel and exit; no check
\* is evaluated before LoadAll has returned successfully, and the Query
\* Truncation query is sent after LoadAll and before any Close of the
\* session.
C25_EventOrder == []EventOrder /\ [][OrderedStep]_vars

\* A run that sent the truncation query, rendered and exited with the
\* session never closed before.
C25_Witness ==
    /\ NormalExit
    /\ rendered
    /\ queries = LoadQueries(0) \o <<TruncationQuery>>
    /\ session = "open"
    /\ exitCode = 1

-----------------------------------------------------------------------------
(* The shape of a check result                                             *)

\* The Check literal each check function starts from, in report order.
Metas ==
    << <<checkCPU_c, checkDiskSpace_c, checkMemory_c, checkConnectionUtilization_c,
         checkOpenFiles_c>>,
       <<checkMyISAMCacheHitRate_c, checkMyISAMKeyWriteRatio_c, checkInnoDBCacheHitRate_c,
         checkRedoLogCoverage_c, checkInnoDBDirtyPages_c>>,
       <<checkThreadCacheHitRate_c, checkThreadCacheRatio_c, checkTableCacheHitRate_c,
         checkTableDefCacheHitRate_c, checkTableLockingEfficiency_c>>,
       <<checkSortMergePassRatio_c, checkTempDiskData_c, checkFlushingLogs_c,
         checkQCacheFragmentation_c, checkQueryTruncation_c>> >>

\* The last character of a formatted value: a percentage, a minute count,
\* "... (eff: x%)" or "TRUE (n truncated)", or FALSE.
ValueEndings == {"%", "n", ")", "E"}

\* C26: for every check result the level is SKIP if and only if the value
\* is the marker N/A; every OK, WARN or CRIT result carries a formatted
\* computed value; Name, Threshold, Description and Detail of a result are
\* the same for every snapshot.
C26_ResultShape ==
    \A i \in 1..Len(categories) :
        \A j \in 1..Len(categories[i].Checks) :
            With(categories[i].Checks[j], LAMBDA ch :
                /\ ch.Level \in Levels
                /\ ch.Level = LevelSkip <=> ch.Value = NA
                /\ ch.Level # LevelSkip =>
                       /\ ch.Value # <<>>
                       /\ Last(ch.Value) \in ValueEndings
                       /\ \E k \in 1..Len(ch.Value) :
                             IsDigit(ch.Value[k]) \/ ch.Value[k] = "F"
                /\ ch.Name = Metas[i][j].Name
                /\ ch.Threshold = Metas[i][j].Threshold
                /\ ch.Description = Metas[i][j].Description
                /\ ch.Detail = Metas[i][j].Detail)

\* A finished run in which the truncation query failed and the CPU check
\* was rated.
C26_Witness ==
    /\ NormalExit
    /\ categories[4].Checks[5].Level = LevelSkip
    /\ categories[4].Checks[5].Value = NA
    /\ categories[1].Checks[1].Level # LevelSkip
    /\ categories[1].Checks[1].Value # NA

-----------------------------------------------------------------------------
(* The summary of Render on lists of categories                            *)

MaxRendered == 2

\* The levels of the checks of one category.
LevelSeqs == UNION {[1..n -> Levels] : n \in 0..MaxRendered}

\* A value as a check of level l carries it; the WARN one is longer than
\* valCol.
ValueAt(l) ==
    IF l = LevelSkip THEN NA
    ELSE IF l = LevelWarn
    THEN <<"T", "R", "U", "E", " ", "(", "1", "2", " ",
           "t", "r", "u", "n", "c", "a", "t", "e", "d", ")">>
    ELSE <<"1", ".", "0", "0", "%">>

\* The i-th category of main with its first checks at the levels ls.
CategoryAt(i, ls) ==
    [Name |-> CategoryNames[i],
     Checks |-> [j \in 1..Len(ls) |->
                    [Metas[i][j] EXCEPT !.Level = ls[j], !.Value = ValueAt(ls[j])]]]

InitRender ==
    /\ pc = "render"
    /\ MainIdle
    /\ m = DefaultSnapshot
    /\ result = NoResult
    /\ \/ categories = <<>>
       \/ \E a \in LevelSeqs : categories = <<CategoryAt(1, a)>>
       \/ \E a \in LevelSeqs, b \in LevelSeqs :
             categories = <<CategoryAt(1, a), CategoryAt(2, b)>>

NextRender ==
    \/ Render
    \/ ExitSwitch

SpecRender == InitRender /\ [][NextRender]_vars

\* The positions of the checks whose level is WARN or CRIT.
IssuePositions(cats) ==
    {p \in UNION {{<<i, j>> : j \in 1..Len(cats[i].Checks)} : i \in 1..Len(cats)} :
        cats[p[1]].Checks[p[2]].Level \in {LevelWarn, LevelCrit}}

\* Category-then-check order.
Before(p, q) == p[1] < q[1] \/ (p[1] = q[1] /\ p[2] < q[2])

\* C28: the rendered summary agrees with the exit code for every list of
\* categories: the line "Overall: OK - All checks passed" is printed exactly
\* when OverallLevel is OK (exit code 0); otherwise the summary prints
\* OverallLevel and a table with exactly the WARN and CRIT checks, once each,
\* in category-then-check order, and never an N/A or OK check.
C28_SummaryAgrees ==
    (rendered /\ result # NoResult) =>
        With(OverallLevel(categories), LAMBDA ov :
        With(IssuePositions(categories), LAMBDA pos :
            /\ result.passed <=> ov = LevelOK
            /\ exitCode # -1 => (result.passed <=> exitCode = 0)
            /\ result.passed => result.rows = <<>>
            /\ ~result.passed =>
                   /\ ov \in {LevelWarn, LevelCrit}
                   /\ result.overall = String(ov)
                   /\ exitCode # -1 => exitCode = (IF ov = LevelWarn THEN 1 ELSE 2)
            /\ Len(result.rows) = Cardinality(pos)
            /\ result.count = Cardinality(pos)
            /\ \A p \in pos :
                  With(Cardinality({q \in pos : Before(q, p)}) + 1, LAMBDA k :
                      /\ result.rows[k].name = categories[p[1]].Checks[p[2]].Name
                      /\ result.rows[k].tag = String(categories[p[1]].Checks[p[2]].Level))
            /\ \A k \in 1..Len(result.rows) : result.rows[k].tag \in {"WARN", "CRIT"}))

\* Two categories holding an N/A, a WARN, an OK and a CRIT check: two rows,
\* WARN then CRIT, and exit code 2.
C28_Witness ==
    /\ rendered
    /\ result # NoResult
    /\ exitCode = 2
    /\ Len(categories) = 2
    /\ Len(categories[1].Checks) = 2
    /\ Len(categories[2].Checks) = 2
    /\ categories[1].Checks[1].Level = LevelSkip
    /\ categories[1].Checks[2].Level = LevelWarn
    /\ categories[2].Checks[1].Level = LevelOK
    /\ categories[2].Checks[2].Level = LevelCrit
    /\ ~result.passed
    /\ Len(result.rows) = 2
    /\ result.rows[1].tag = "WARN"
    /\ result.rows[2].tag = "CRIT"

-----------------------------------------------------------------------------
(* The shell variant: bump_overall and the exit code                       *)

ShellLevels == {"OK", "INFO", "SKIP", "WARN", "CRIT"}

MaxBumps == 3

\* A variant of bump_overall whose WARN case assigns 1 without the test.
bump_overall_untested(o, level) ==
    CASE level = "CRIT" -> 2
      [] level = "WARN" -> 1
      [] OTHER -> o

\* case "$1" in CRIT) overall=2 ;; WARN) [[ "$overall" -lt 1 ]] && overall=1 ;;
\* *) : ;; esac -- the value of overall after the call, o being its value
\* before.
bump_overall(o, level) ==
    CASE level = "CRIT" -> 2
      [] level = "WARN" -> IF o < 1 THEN 1 ELSE o
      [] OTHER -> o

InitShell ==
    /\ pc = "shell"
    /\ MainIdle
    /\ m = [Status |-> EmptyMap, Vars |-> EmptyMap, Version |-> <<>>]
    /\ categories = <<>>
    /\ result = NoResult

\* bump_overall "$lvl"
BumpOverall ==
    /\ pc = "shell"
    /\ Len(passed) < MaxBumps
    /\ \E level \in ShellLevels :
          /\ shellOverall' = bump_overall(shellOverall, level)
          /\ passed' = Append(passed, level)
    /\ UNCHANGED <<pc, flags, defers, exitCode, failed, tookDefault, session, queries,
                   m, loaded, categories, rendered, slept, result>>

\* case "$overall" in 0) exit 0;; 1) exit 1;; 2) exit 2;; *) exit 1;; esac
ShellExit ==
    /\ pc = "shell"
    /\ pc' = "shell exited"
    /\ exitCode' = CASE shellOverall = 0 -> 0
                     [] shellOverall = 1 -> 1
                     [] shellOverall = 2 -> 2
                     [] OTHER -> 1
    /\ UNCHANGED <<flags, shellOverall, passed, defers, failed, tookDefault, session,
                   queries, m, loaded, categories, rendered, slept, result>>

NextShell ==
    \/ BumpOverall
    \/ ShellExit

SpecShell == InitShell /\ [][NextShell]_vars

\* OK / INFO / SKIP = 0 < WARN = 1 < CRIT = 2
Severity(level) ==
    CASE level = "CRIT" -> 2
      [] level = "WARN" -> 1
      [] OTHER -> 0

MaxSeverity(s) ==
    IF s = <<>> THEN 0
    ELSE CHOOSE x \in {Severity(s[i]) : i \in 1..Len(s)} :
             \A i \in 1..Len(s) : Severity(s[i]) <= x

\* The levels given to bump_overall as the checks of one category.
AsCategories(s) ==
    <<[Name |-> "shell",
       Checks |-> [i \in 1..Len(s) |->
                      [Name |-> "check",
                       Level |-> CASE s[i] = "CRIT" -> LevelCrit
                                   [] s[i] = "WARN" -> LevelWarn
                                   [] s[i] = "SKIP" -> LevelSkip
                                   [] OTHER -> LevelOK]]]>>

ShellMax ==
    /\ shellOverall = MaxSeverity(passed)
    /\ pc = "shell exited" =>
           exitCode = CASE OverallLevel(AsCategories(passed)) = LevelOK -> 0
                        [] OverallLevel(AsCategories(passed)) = LevelWarn -> 1
                        [] OTHER -> 2

ShellStep ==
    /\ shellOverall' >= shellOverall
    /\ passed' # passed =>
           /\ (Last(passed') = "WARN" /\ shellOverall = 2) => shellOverall' = 2
           /\ Last(passed') \notin {"WARN", "CRIT"} => shellOverall' = shellOverall

\* C29: in the shell variant, after any sequence of bump_overall calls the
\* counter overall is the maximum severity of the levels passed so far: it
\* never decreases, a WARN after a CRIT leaves it at 2, other levels leave
\* it unchanged; the exit code equals OverallLevel over the same levels.
C29_ShellMax == []ShellMax /\ [][ShellStep]_vars

\* CRIT, then WARN, then OK: overall stays 2 and the script exits with 2.
C29_Witness ==
    /\ pc = "shell exited"
    /\ passed = <<"CRIT", "WARN", "OK">>
    /\ shellOverall = 2
    /\ exitCode = 2

====
